---------------------------- MODULE Spec2Model ----------------------------
(***************************************************************************)
(* Liquidation-risk pipeline of hl-liq-tracker.                            *)
(*                                                                         *)
(* Three programs of the repository are modelled:                          *)
(*   - the dashboard server with the vault-attack heuristic                *)
(*     (src/unnamed/part_000): position evaluator, discovery, registry,    *)
(*     immediate scans, periodic scans, alerts;                            *)
(*   - the first dashboard server of src/server.js (lines 1-688): its      *)
(*     alert path (variables prefixed srv);                                *)
(*   - the live trade bot index.js embedded in src/README.md               *)
(*     (lines 946-1460): its alert path (variables prefixed bot).          *)
(*                                                                         *)
(* Numbers.  Prices, sizes and dollar amounts are integers; a distance to  *)
(* liquidation is the exact fraction distNum / distDen and is compared by  *)
(* cross-multiplication, so the rounding of IEEE doubles is not modelled.  *)
(* A falsy number (0, NaN, undefined, null) is 0.  A nullable value is a   *)
(* sequence: <<>> is null and <<v>> is v.  Time is in ticks.               *)
(***************************************************************************)
EXTENDS Integers, Sequences, FiniteSets, TLC

VARIABLES
  now,                 \* Date.now(), in ticks
  allMids,             \* part_000: price cache, coin -> price (0: no price)
  minPositionUSD,      \* part_000: CONFIG.MIN_POSITION_USD (read from the environment)
  evalLog,             \* calls of processPosition made so far: arguments, environment, result
  knownWhaleAddresses, \* part_000: knownWhaleAddresses
  registryOrder,       \* part_000: the addresses of knownWhaleAddresses in the order of insertion (the
                       \* order in which a Set is spread into an array)
  addressLastSeen,     \* part_000: addressLastSeen, address -> time (0: no entry)
  addressTradeVolume,  \* part_000: addressTradeVolume, address -> dollars (0: no entry)
  trackedPositions,    \* part_000: trackedPositions
  knownPositionKeys,   \* part_000: knownPositionKeys
  sentAlerts,          \* part_000: sentAlerts, alert key -> time (0: no entry)
  scansRunning,        \* part_000: the checkAddressImmediately calls in flight: how many stand at each await
  alertsRunning,       \* part_000: the sendAlerts calls in flight: how many stand at each await or timer
  refresh,             \* part_000: the refreshPositions call in flight and the await it stands at
  lastScan,            \* history: what the loop of the last checkAddressImmediately did, per position
  lastBatch,           \* history: the last batch of trades processed (<<>>: none)
  botAllMids,          \* index.js: allMids, coin -> price (0: no price)
  botSentAlerts,       \* index.js: sentAlerts, key -> time of markAlertSent (0: no entry)
  botTasks,            \* index.js: the checkPosition calls in flight: how many stand at each await, per user and coin
  botNotified,         \* history: per platform and key, the times of the last two notifications sent
  botChecks,           \* history: per key, the last call of shouldSendAlert (<<>>: none): its time, the
                       \* time of the last markAlertSent before it (0: none), the time of the last
                       \* earlier call that returned true (0: none), and its result
  botMarkedAt,         \* history: per key, the time of the last call of markAlertSent (0: none)
  srvAllMids,          \* server.js: allMids, coin -> price (0: no price)
  srvKnownWhaleAddresses, \* server.js: knownWhaleAddresses
  srvConfigured,       \* server.js: the platforms whose credentials CONFIG holds
  srvTrackedPositions, \* server.js: trackedPositions
  srvSentAlerts,       \* server.js: sentAlerts, alert key -> time (0: no entry)
  srvScans,            \* server.js: the checkAddressImmediately calls in flight: how many stand at each await
  srvPosts,            \* server.js: the posts to Telegram and Twitter in flight, per alert key
  srvRefresh,          \* server.js: the refreshPositions call in flight and the await it stands at
  srvNotified,         \* history: per alert key, the times of the last two notifications sent
  ws,                  \* part_000: the socket that the variable ws refers to (0: null)
  wsSockets,           \* part_000: the sockets that exist: readyState, and whether the venue holds a
                       \* trades subscription of the socket
  wsReconnectAttempts, \* part_000: wsReconnectAttempts
  lastTradeReceived,   \* part_000: lastTradeReceived (0: no trade message yet)
  wsTimers,            \* part_000: the times at which the pending setTimeout(connectWebSocket) fire
  nextHealthCheck,     \* part_000: the time of the next health check (0: initialize has not run)
  fullScan,            \* part_000: the refreshPositions call over the whole registry in flight: the
                       \* await it stands at, the addresses passed to scanPositions, the batch and
                       \* the results so far; and, as history, the registry when it was called, the
                       \* addresses whose state was requested and what each of them answered
  srv2,                \* server.js, second server (lines 689-1805): knownWhaleAddresses,
                       \* trackedPositions, positionOpenTimeCache and the checkAddressImmediately
                       \* calls in flight
  enrich,              \* part_000: allTimePnlCache, walletAgeCache, walletAgeDays, and the callers of
                       \* getCachedAllTimePnl and getWalletAge that wait for a request; and, as
                       \* history, the last call of line 1012 or the last request that ended
  hl,                  \* part_000: one call of hlPost by getUserState: the await it stands at, the
                       \* loop index, the time at which the request times out or the timer is due;
                       \* and, as history, when each attempt was sent and failed, the delays
                       \* scheduled, and what the caller got
  credentials,         \* part_000: the settings of CONFIG (lines 25-30) that are set, and oauthLib when
                       \* the library was loaded (line 180)
  http,                \* part_000: the last request of POST /api/add-address: its body, the answer
                       \* sent (none while the handler waits or after it threw), and whether the
                       \* handler threw
  botWs,               \* README index.js: the stream of the bot (lines 1295-1351) and its shutdown
                       \* (lines 1438-1457): readyState of ws, the times at which the pending
                       \* setTimeout(connectWebSocket) fire, whether the process runs, closes its
                       \* HTTP server or has exited; and, as history, the calls of
                       \* connectWebSocket since the signal
  bgScan,              \* part_000: isScanning and the backgroundLiquidatableScan call past its guard (lines
                       \* 1113-1198): the await it stands at, its batch and the number of
                       \* its batches; and, as history, how many calls were made, whether the
                       \* last call returned at the guard, and how the last scan ended
  laterRefresh,        \* part_000: the refreshPositions call that the timer of line 1086 starts
                       \* while an earlier call is in flight: the await it stands at and the state
                       \* it holds; and, as history, whether it has replaced trackedPositions
  streamHist           \* history: how many handlers the last trade message ran in, the last two
                       \* delays scheduled since the last open, the last call of connectWebSocket
                       \* after the first (with the volumes of the registry at that time), and
                       \* the last health check

evalVars == <<allMids, minPositionUSD, evalLog>>

botVars == <<botAllMids, botSentAlerts, botTasks, botNotified, botChecks, botMarkedAt>>

srvVars == <<srvAllMids, srvKnownWhaleAddresses, srvConfigured,
             srvTrackedPositions, srvSentAlerts, srvScans, srvPosts, srvRefresh, srvNotified>>

dashVars == <<knownWhaleAddresses, registryOrder, addressLastSeen, addressTradeVolume, trackedPositions,
              knownPositionKeys, sentAlerts, scansRunning, alertsRunning, refresh, lastScan,
              lastBatch>>

streamVars == <<ws, wsSockets, wsReconnectAttempts, lastTradeReceived, wsTimers, nextHealthCheck,
                streamHist>>

\* What the steps of one program leave alone: the state of the other programs.
outsideEval == <<dashVars, botVars, srvVars, streamVars, fullScan, srv2, enrich, hl, credentials, http, botWs, bgScan, laterRefresh>>
outsideBot == <<evalVars, dashVars, srvVars, streamVars, fullScan, srv2, enrich, hl, credentials, http, botWs, bgScan, laterRefresh>>
outsideSrv == <<evalVars, dashVars, botVars, streamVars, fullScan, srv2, enrich, hl, credentials, http, botWs, bgScan, laterRefresh>>
beyondDash == <<evalLog, botVars, srvVars, streamVars, fullScan, srv2, enrich, hl, credentials, botWs, bgScan, laterRefresh>>
outsideDash == <<beyondDash, http, bgScan, laterRefresh>>
outsideStream == <<evalVars, botVars, srvVars, fullScan, srv2, enrich, hl, credentials, http, botWs, bgScan, laterRefresh>>
outsideFullScan == <<evalLog, botVars, srvVars, streamVars, srv2, enrich, hl, credentials, http, botWs, bgScan, laterRefresh>>

vars == <<now, allMids, minPositionUSD, evalLog,
          knownWhaleAddresses, registryOrder, addressLastSeen, addressTradeVolume, trackedPositions,
          knownPositionKeys, sentAlerts, scansRunning, alertsRunning, refresh, lastScan,
          lastBatch,
          botAllMids, botSentAlerts, botTasks, botNotified, botChecks, botMarkedAt,
          srvAllMids, srvKnownWhaleAddresses, srvConfigured,
          srvTrackedPositions, srvSentAlerts, srvScans, srvPosts, srvRefresh, srvNotified,
          ws, wsSockets, wsReconnectAttempts, lastTradeReceived, wsTimers, nextHealthCheck,
          fullScan, srv2, enrich, hl, credentials, http, botWs, bgScan, laterRefresh, streamHist>>

(***************************************************************************)
(* Bounds of the model                                                     *)
(***************************************************************************)
MaxTime == 3
BotMaxTasks == 2
SrvMaxTasks == 2
DashMaxTasks == 1
DashMaxVolume == 5
DiscMaxTasks == 2
DiscMaxVolume == 6
V2MaxTasks == 2
TrackedMaxTasks == 2
TrackedMaxVolume == 5
StreamMaxTime == 9
StreamMaxSockets == 2
StreamMaxTimers == 2
StreamMaxVolume == 2
WatchMaxTime == 27
RegMaxVolume == 4

(***************************************************************************)
(* Values                                                                  *)
(***************************************************************************)
Abs(x) == IF x < 0 THEN 0 - x ELSE x

Null == [kind |-> "null"]

\* Instruments of the model: one major coin and one coin whose name is not in
\* upper case on the exchange.
Coins == {"BTC", "kPEPE"}

OtherCoin(c) == IF c = "BTC" THEN "kPEPE" ELSE "BTC"

TOP_COINS == {"BTC", "ETH", "SOL", "BNB", "XRP", "DOGE", "ADA", "AVAX", "DOT", "MATIC", "LINK", "NEAR"}

toUpperCase(s) == CASE s = "kPEPE" -> "KPEPE"
                    [] s = "btc" -> "BTC"
                    [] OTHER -> s

toLowerCase(s) == CASE s = "0xA1b2c3d4e5" -> "0xa1b2c3d4e5"
                    [] OTHER -> s

isShitcoin(coin) == toUpperCase(coin) \notin TOP_COINS

(***************************************************************************)
(* CONFIG and the literals of processPosition (part_000)                   *)
(***************************************************************************)
MIN_POSITION_USD == 2000000
MIN_TRADE_USD == 100000
DANGER_THRESHOLD_5 == 5
DANGER_THRESHOLD_10 == 10
VAULT_POSITION_USD == 2000000
MAX_DISTANCE_SHITCOIN == 15
MAX_DISTANCE_TOP == 10

(***************************************************************************)
(* processPosition (part_000 lines 470-530)                                *)
(***************************************************************************)
\* const markPrice = currentPrice || allMids[coin];
markPriceOf(currentPrice, mids, coin) ==
  IF currentPrice # 0 THEN currentPrice ELSE mids[coin]

\* if (positionUSD < CONFIG.MIN_POSITION_USD) return null;
belowMinPosition_tradeFloor(positionUSD, cfgMin) == positionUSD < MIN_TRADE_USD
belowMinPosition(positionUSD, cfgMin) == positionUSD < cfgMin

\* isLong ? (markPrice - liqPx) / markPrice : (liqPx - markPrice) / markPrice,
\* the numerator; the denominator is markPrice.
distanceNum(szi, markPrice, liqPx) ==
  IF szi > 0 THEN markPrice - liqPx ELSE liqPx - markPrice

\* const maxDistance = isShitcoinLargePosition ? 0.15 : 0.10;  (in percent)
maxDistance_always15(coin, positionUSD) == MAX_DISTANCE_SHITCOIN
maxDistance(coin, positionUSD) ==
  IF isShitcoin(coin) /\ positionUSD >= VAULT_POSITION_USD
  THEN MAX_DISTANCE_SHITCOIN ELSE MAX_DISTANCE_TOP

\* if (distanceToLiq > maxDistance || distanceToLiq < 0) return null;
outOfRange_exclusive(distNum, markPrice, maxPct) ==
  distNum * 100 >= maxPct * markPrice \/ distNum < 0
outOfRange(distNum, markPrice, maxPct) ==
  distNum * 100 > maxPct * markPrice \/ distNum < 0

\* distanceToLiq <= 0.05 ? 'CRITICAL' : distanceToLiq <= 0.10 ? 'WARNING' : 'WATCH'
dangerLevelOf_strict(distNum, markPrice) ==
  IF distNum * 100 < DANGER_THRESHOLD_5 * markPrice THEN "CRITICAL"
  ELSE IF distNum * 100 < DANGER_THRESHOLD_10 * markPrice THEN "WARNING"
  ELSE "WATCH"
dangerLevelOf_swapped(distNum, markPrice) ==
  IF distNum * 100 <= DANGER_THRESHOLD_5 * markPrice THEN "WARNING"
  ELSE IF distNum * 100 <= DANGER_THRESHOLD_10 * markPrice THEN "CRITICAL"
  ELSE "WATCH"
dangerLevelOf(distNum, markPrice) ==
  IF distNum * 100 <= DANGER_THRESHOLD_5 * markPrice THEN "CRITICAL"
  ELSE IF distNum * 100 <= DANGER_THRESHOLD_10 * markPrice THEN "WARNING"
  ELSE "WATCH"

\* (distanceToLiq * 100).toFixed(2), in hundredths of a percent
distancePercentOf(distNum, markPrice) ==
  (distNum * 20000 + markPrice) \div (2 * markPrice)

\* The sibling positions of the account snapshot (lines 497-517): every open
\* position of another coin, valued at the price cache's price.
RECURSIVE otherPositionsOf_pricedOnly(_, _, _)
otherPositionsOf_pricedOnly(assetPositions, coin, mids) ==
  IF assetPositions = <<>> THEN <<>>
  ELSE LET p == Head(assetPositions)
           rest == otherPositionsOf_pricedOnly(Tail(assetPositions), coin, mids)
       IN IF p.szi # 0 /\ p.coin # coin /\ mids[p.coin] # 0
          THEN <<[coin |-> p.coin,
                  direction |-> IF p.szi > 0 THEN "LONG" ELSE "SHORT",
                  positionUSD |-> Abs(p.szi) * mids[p.coin],
                  unrealizedPnl |-> p.unrealizedPnl]>> \o rest
          ELSE rest
RECURSIVE otherPositionsOf(_, _, _)
otherPositionsOf(assetPositions, coin, mids) ==
  IF assetPositions = <<>> THEN <<>>
  ELSE LET p == Head(assetPositions)
           rest == otherPositionsOf(Tail(assetPositions), coin, mids)
       IN IF p.szi # 0 /\ p.coin # coin
          THEN <<[coin |-> p.coin,
                  direction |-> IF p.szi > 0 THEN "LONG" ELSE "SHORT",
                  positionUSD |-> Abs(p.szi) * mids[p.coin],
                  unrealizedPnl |-> p.unrealizedPnl]>> \o rest
          ELSE rest

RECURSIVE totalUnrealizedPnlOf(_)
totalUnrealizedPnlOf(assetPositions) ==
  IF assetPositions = <<>> THEN 0
  ELSE LET p == Head(assetPositions)
       IN (IF p.szi # 0 THEN p.unrealizedPnl ELSE 0)
          + totalUnrealizedPnlOf(Tail(assetPositions))

\* accountData is <<>> (null) or <<snapshot>>; mids, t and cfgMin are the
\* globals the function reads: allMids, Date.now() and CONFIG.MIN_POSITION_USD.
processPosition(userAddress, position, currentPrice, accountData, mids, t, cfgMin) ==
  LET coin == position.coin
      szi == position.szi
      liqPx == position.liquidationPx
      markPrice == markPriceOf(currentPrice, mids, coin)
      positionUSD == Abs(szi) * markPrice
      distNum == distanceNum(szi, markPrice, liqPx)
      aps == IF accountData = <<>> THEN <<>> ELSE accountData[1].assetPositions
      others == otherPositionsOf(aps, coin, mids)
  IN IF markPrice = 0 \/ liqPx = 0 THEN Null
     ELSE IF belowMinPosition(positionUSD, cfgMin) THEN Null
     ELSE IF outOfRange(distNum, markPrice, maxDistance(coin, positionUSD)) THEN Null
     ELSE [kind |-> "position",
           user |-> userAddress,
           coin |-> coin,
           direction |-> IF szi > 0 THEN "LONG" ELSE "SHORT",
           positionSize |-> szi,
           positionUSD |-> positionUSD,
           entryPrice |-> position.entryPx,
           markPrice |-> markPrice,
           liqPrice |-> liqPx,
           distNum |-> distNum,
           distDen |-> markPrice,
           distancePercent |-> distancePercentOf(distNum, markPrice),
           unrealizedPnl |-> position.unrealizedPnl,
           dangerLevel |-> dangerLevelOf(distNum, markPrice),
           timestamp |-> t,
           walletBalance |-> IF accountData = <<>> THEN <<>>
                             ELSE <<accountData[1].accountValue>>,
           otherPositions |-> others,
           totalPositionCount |-> Len(others) + 1,
           totalUnrealizedPnl |-> totalUnrealizedPnlOf(aps),
           allTimePnl |-> <<>>,
           isProfitableWhale |-> FALSE,
           walletAgeDays |-> <<>>]

(***************************************************************************)
(* The evaluator applied to bounded inputs                                 *)
(***************************************************************************)
EvalUser == "0xa1"

\* Sizes: a short of $2M at the reference price, a long between $1M and $2M,
\* a long just under $2M, a long of exactly $2M.
SziSet == {0 - 20000, 15000, 19999, 20000}

\* Liquidation prices around the reference price 100: the 5 %, 10 % and 15 %
\* boundaries of both directions, a step beyond each, past liquidation, none (0).
LiqSet == {0, 84, 85, 89, 90, 94, 95, 99, 101, 105, 106, 110, 111, 115, 116}

PriceSet == {0, 100}

RawPosition(coin, szi, liq) ==
  [coin |-> coin, szi |-> szi, liquidationPx |-> liq, entryPx |-> 100, unrealizedPnl |-> 7]

\* clearinghouseState of an account that holds the position and one sibling
\* position in the other coin.
Snapshot(pos) ==
  [accountValue |-> 50000,
   assetPositions |-> <<pos, [coin |-> OtherCoin(pos.coin), szi |-> 0 - 3,
                              liquidationPx |-> 0, entryPx |-> 100, unrealizedPnl |-> 0 - 2]>>]

EvalInputs ==
  {[position |-> RawPosition(c, s, l), currentPrice |-> p,
    accountData |-> <<Snapshot(RawPosition(c, s, l))>>] :
      c \in Coins, s \in SziSet, l \in LiqSet, p \in PriceSet}

\* The positions compared with the first one: $2M at the reference price,
\* either direction, either coin, every liquidation price, no snapshot.
PairInputs ==
  {[position |-> RawPosition(c, s, l), currentPrice |-> 100, accountData |-> <<>>] :
      c \in Coins, s \in {0 - 20000, 20000}, l \in LiqSet}

EvalCall(a) ==
  [args |-> a, mids |-> allMids, at |-> now,
   out |-> processPosition(EvalUser, a.position, a.currentPrice, a.accountData,
                           allMids, now, minPositionUSD)]

\* The first call of processPosition.
EvaluateFirst ==
  /\ evalLog = <<>>
  /\ \E a \in EvalInputs : evalLog' = <<EvalCall(a)>>
  /\ UNCHANGED <<now, allMids, minPositionUSD, outsideEval>>

\* The next iteration of the same synchronous loop over assetPositions
\* (lines 668-670, 1013-1014): another position, same clock, same price cache.
EvaluateOther ==
  /\ Len(evalLog) = 1
  /\ evalLog[1].at = now
  /\ evalLog[1].mids = allMids
  /\ \E a \in PairInputs : evalLog' = Append(evalLog, EvalCall(a))
  /\ UNCHANGED <<now, allMids, minPositionUSD, outsideEval>>

\* A later scan evaluates the same raw position, mark price and snapshot again.
EvaluateAgain ==
  /\ Len(evalLog) = 1
  /\ evalLog' = Append(evalLog, EvalCall(evalLog[1].args))
  /\ UNCHANGED <<now, allMids, minPositionUSD, outsideEval>>

\* The price cache is replaced between two scans (refreshPositions, line 1045).
MidsReplaced ==
  /\ Len(evalLog) = 1
  /\ evalLog[1].mids = allMids
  /\ \E m \in [Coins -> PriceSet] : m # allMids /\ allMids' = m
  /\ UNCHANGED <<now, minPositionUSD, evalLog, outsideEval>>

EvalTick ==
  /\ Len(evalLog) = 1
  /\ now < MaxTime
  /\ now' = now + 1
  /\ UNCHANGED <<evalVars, dashVars, botVars, srvVars, streamVars, fullScan, srv2, enrich, hl, credentials, http, botWs, bgScan, laterRefresh>>

(***************************************************************************)
(* Properties of the evaluator                                             *)
(***************************************************************************)
Evaluated == 1..Len(evalLog)

\* What the claims call the mark price, the notional and the distance of a
\* logged call, written from their statements.
EntryMark(e) ==
  IF e.args.currentPrice # 0 THEN e.args.currentPrice ELSE e.mids[e.args.position.coin]
EntryNotional(e) == Abs(e.args.position.szi) * EntryMark(e)
EntryIsLong(e) == e.args.position.szi > 0
EntryDistNum(e) ==
  IF EntryIsLong(e) THEN EntryMark(e) - e.args.position.liquidationPx
  ELSE e.args.position.liquidationPx - EntryMark(e)
EntryIsMajor(e) == e.args.position.coin = "BTC"
EntryMaxPct(e) ==
  IF ~EntryIsMajor(e) /\ EntryNotional(e) >= 2000000 THEN 15 ELSE 10
Priced(e) == EntryMark(e) > 0 /\ e.args.position.liquidationPx > 0

\* C5: a position whose notional (|size| * mark price) is below
\* MIN_POSITION_USD is rejected, whatever its direction, coin and distance.
C5_BelowFloorIsNone ==
  \A i \in Evaluated :
    EntryNotional(evalLog[i]) < minPositionUSD => evalLog[i].out = Null

\* A position within 5 % of liquidation, just under the floor, rejected.
C5_Witness ==
  \E i \in Evaluated :
    LET e == evalLog[i]
    IN /\ Priced(e)
       /\ EntryNotional(e) < minPositionUSD
       /\ EntryNotional(e) > 0
       /\ EntryDistNum(e) >= 0
       /\ EntryDistNum(e) * 100 <= 5 * EntryMark(e)
       /\ e.out = Null

Severity(level) == CASE level = "CRITICAL" -> 3 [] level = "WARNING" -> 2 [] OTHER -> 1

\* C8: of two accepted positions, the one nearer to liquidation is classified
\* at least as severe (CRITICAL > WARNING > WATCH).
C8_Monotonic ==
  \A i, j \in Evaluated :
    LET e == evalLog[i]
        f == evalLog[j]
    IN (e.out # Null /\ f.out # Null
        /\ EntryDistNum(e) * EntryMark(f) < EntryDistNum(f) * EntryMark(e))
         => Severity(e.out.dangerLevel) >= Severity(f.out.dangerLevel)

\* Two accepted positions at different distances with different levels.
C8_Witness ==
  \E i, j \in Evaluated :
    LET e == evalLog[i]
        f == evalLog[j]
    IN /\ e.out # Null /\ f.out # Null
       /\ EntryDistNum(e) * EntryMark(f) < EntryDistNum(f) * EntryMark(e)
       /\ Severity(e.out.dangerLevel) > Severity(f.out.dangerLevel)

\* A record without the fields that carry the clock and the price cache.
EraseEnvironment(r) ==
  IF r = Null THEN Null
  ELSE [r EXCEPT !.timestamp = 0,
                 !.otherPositions = [k \in 1..Len(r.otherPositions) |->
                                       [r.otherPositions[k] EXCEPT !.positionUSD = 0]]]

BOT_MIN_TRADE_USD == 200000
BOT_MIN_POSITION_USD == 2000000
BOT_MAX_DISTANCE_PERCENT == 10
\* const ALERT_COOLDOWN = 24 * 60 * 60 * 1000: one tick of the model's clock
BOT_ALERT_COOLDOWN == 1

BotCoins == {"BTC"}
\* One account, as the exchange may spell it in two trades, and a string that
\* is no address.
BotUsers == {"0xA1b2c3d4e5", "0xa1b2c3d4e5"}
BotJunkUser == "0xbad"
BotPlatforms == {"telegram", "twitter"}

\* const key = `${address.toLowerCase()}-${coin}`
botKey(address, coin) == <<toLowerCase(address), coin>>
BotKeys == {botKey(u, c) : u \in BotUsers, c \in BotCoins}

\* shouldSendAlert (lines 1026-1031), on the map `alerts` at time t
shouldSendAlert_atBoundary(alerts, address, coin, t) ==
  LET lastSent == alerts[botKey(address, coin)]
  IN IF lastSent = 0 THEN TRUE ELSE (t - lastSent) >= BOT_ALERT_COOLDOWN
shouldSendAlert(alerts, address, coin, t) ==
  LET lastSent == alerts[botKey(address, coin)]
  IN IF lastSent = 0 THEN TRUE ELSE (t - lastSent) > BOT_ALERT_COOLDOWN

\* markAlertSent (lines 1033-1036)
markAlertSent_noop(alerts, address, coin, t) == alerts
markAlertSent(alerts, address, coin, t) ==
  [alerts EXCEPT ![botKey(address, coin)] = t]

\* The tests of checkPosition on one position of the answer (lines 1168-1189):
\* the traded coin, a non-zero size, a price, $2M, within 0..10 % of liquidation.
botQualifies(pos, coin, mids) ==
  LET markPrice == mids[pos.coin]
      positionUSD == Abs(pos.szi) * markPrice
      distNum == IF pos.szi > 0 THEN markPrice - pos.liquidationPx
                 ELSE pos.liquidationPx - markPrice
  IN /\ pos.coin = coin
     /\ pos.szi # 0
     /\ markPrice # 0
     /\ ~(positionUSD < BOT_MIN_POSITION_USD)
     /\ ~(distNum * 100 > BOT_MAX_DISTANCE_PERCENT * markPrice \/ distNum < 0)

\* A checkPosition call in flight: the await it stands at and its arguments.
BotCall(pc, user, coin) == [pc |-> pc, user |-> user, coin |-> coin]
BotCalls == {BotCall(pc, u, c) : pc \in {"state", "age", "pnl", "send"},
                                 u \in BotUsers, c \in BotCoins}

RECURSIVE SumOver(_, _)
SumOver(f, S) ==
  IF S = {} THEN 0
  ELSE LET x == CHOOSE y \in S : TRUE IN f[x] + SumOver(f, S \ {x})

BotInFlight == SumOver(botTasks, BotCalls)

\* clearinghouseState answers: a failure (null), no position, one position
\* of the coin: at risk, under $2M, or too far from liquidation.
BotStateAnswers ==
  {<<>>} \cup
  {<<[assetPositions |-> ps]>> :
     ps \in {<<>>, <<RawPosition("BTC", 20000, 95)>>, <<RawPosition("BTC", 19999, 95)>>,
             <<RawPosition("BTC", 0 - 20000, 111)>>}}

BotTrade(sz, users) == [coin |-> "BTC", sz |-> sz, px |-> 100, users |-> users]

\* Trades of a batch: one under the $200K threshold; at the threshold, with
\* either spelling of the account, both, or a string that is no address.
BotTrades ==
  {BotTrade(1999, <<"0xA1b2c3d4e5">>)} \cup
  {BotTrade(2000, us) : us \in {<<"0xA1b2c3d4e5">>, <<"0xa1b2c3d4e5">>,
                                <<"0xA1b2c3d4e5", "0xa1b2c3d4e5">>, <<BotJunkUser>>}}

\* A batch of the stream holds one or two trades.
BotBatches == {<<t>> : t \in BotTrades} \cup {<<t, u>> : t, u \in BotTrades}

\* The checkPosition calls of one trade (lines 1365-1382), in order.
RECURSIVE botCallsOfUsers(_, _)
botCallsOfUsers(users, coin) ==
  IF users = <<>> THEN <<>>
  ELSE LET user == Head(users)
           rest == botCallsOfUsers(Tail(users), coin)
       IN IF Len(user) < 10 THEN rest
          ELSE <<BotCall("state", user, coin)>> \o rest

RECURSIVE botCallsOfTrades(_)
botCallsOfTrades(trades) ==
  IF trades = <<>> THEN <<>>
  ELSE LET trade == Head(trades)
           rest == botCallsOfTrades(Tail(trades))
           tradeValue == Abs(trade.sz) * trade.px
       IN IF trade.sz = 0 \/ trade.px = 0 THEN rest
          ELSE IF tradeValue < BOT_MIN_TRADE_USD THEN rest
          ELSE botCallsOfUsers(trade.users, trade.coin) \o rest

\* What the batches of the stream start: the calls of each batch.
BotBatchCalls == {botCallsOfTrades(batch) : batch \in BotBatches}

\* The calls in flight once a sequence of new calls has started.
RECURSIVE botPlace(_, _)
botPlace(tasks, calls) ==
  IF calls = <<>> THEN tasks
  ELSE botPlace([tasks EXCEPT ![Head(calls)] = @ + 1], Tail(calls))

\* A call leaves one await for the next, or ends (to = <<>>).
botMove(tasks, from, to) ==
  LET left == [tasks EXCEPT ![from] = @ - 1]
  IN IF to = <<>> THEN left ELSE [left EXCEPT ![to[1]] = @ + 1]

Last2(seq) == IF Len(seq) > 2 THEN SubSeq(seq, Len(seq) - 1, Len(seq)) ELSE seq

\* processTrades (lines 1353-1383): every qualifying trade starts one
\* checkPosition per user, each running up to its await of getUserState.
BotProcessTrades ==
  /\ LET inFlight == BotInFlight
     IN \E calls \in BotBatchCalls :
          /\ calls # <<>>
          /\ inFlight + Len(calls) <= BotMaxTasks
          /\ botTasks' = botPlace(botTasks, calls)
  /\ UNCHANGED <<now, outsideBot, botAllMids, botSentAlerts, botNotified, botChecks, botMarkedAt>>

\* checkPosition resumes with the answer of getUserState (lines 1165-1213):
\* it tests the position, consults shouldSendAlert, and awaits getWalletAge.
BotStateAnswer(t) ==
  /\ t.pc = "state"
  /\ botTasks[t] > 0
  /\ \E ans \in BotStateAnswers :
       LET ps == IF ans = <<>> THEN <<>> ELSE ans[1].assetPositions
           hit == ps # <<>> /\ botQualifies(ps[1], t.coin, botAllMids)
           go == hit /\ shouldSendAlert(botSentAlerts, t.user, t.coin, now)
           k == botKey(t.user, t.coin)
           old == botChecks[k]
           prevTrue == IF old = <<>> THEN 0
                       ELSE IF old[1].result THEN old[1].at ELSE old[1].prevTrue
       IN /\ botTasks' = botMove(botTasks, t, IF go THEN <<[t EXCEPT !.pc = "age"]>> ELSE <<>>)
          /\ botChecks' = IF hit
                          THEN [botChecks EXCEPT ![k] =
                                  <<[at |-> now, marked |-> botMarkedAt[k],
                                     prevTrue |-> prevTrue, result |-> go]>>]
                          ELSE botChecks
  /\ UNCHANGED <<now, outsideBot, botAllMids, botSentAlerts, botNotified, botMarkedAt>>

\* getWalletAge answers or fails (lines 1215-1218); getAllTimePnl is awaited.
BotAgeAnswer(t) ==
  /\ t.pc = "age"
  /\ botTasks[t] > 0
  /\ botTasks' = botMove(botTasks, t, <<[t EXCEPT !.pc = "pnl"]>>)
  /\ UNCHANGED <<now, outsideBot, botAllMids, botSentAlerts, botNotified, botChecks, botMarkedAt>>

\* getAllTimePnl answers or fails (lines 1220-1223); both sends are started
\* (lines 1228-1231).
BotPnlAnswer(t) ==
  /\ t.pc = "pnl"
  /\ botTasks[t] > 0
  /\ botTasks' = botMove(botTasks, t, <<[t EXCEPT !.pc = "send"]>>)
  /\ UNCHANGED <<now, outsideBot, botAllMids, botSentAlerts, botNotified, botChecks, botMarkedAt>>

\* Both sends have ended, each delivered or not (a platform that is not
\* configured, a failure that the sender catches); markAlertSent runs
\* (lines 1228-1234).
BotSendsDone(t) ==
  /\ t.pc = "send"
  /\ botTasks[t] > 0
  /\ \E delivered \in SUBSET BotPlatforms :
       LET k == botKey(t.user, t.coin)
       IN /\ botNotified' = [p \in BotPlatforms |->
                               IF p \in delivered
                               THEN [botNotified[p] EXCEPT ![k] = Last2(Append(@, now))]
                               ELSE botNotified[p]]
          /\ botSentAlerts' = markAlertSent(botSentAlerts, t.user, t.coin, now)
          /\ botMarkedAt' = [botMarkedAt EXCEPT ![k] = now]
          /\ botTasks' = botMove(botTasks, t, <<>>)
  /\ UNCHANGED <<now, outsideBot, botAllMids, botChecks>>

\* updatePrices (lines 1009-1018): the cache is replaced, or kept on error.
BotUpdatePrices ==
  /\ \E m \in [BotCoins -> {100}] : botAllMids' = m
  /\ botAllMids' # botAllMids
  /\ UNCHANGED <<now, outsideBot, botSentAlerts, botTasks, botNotified, botChecks, botMarkedAt>>

BotTick ==
  /\ now < MaxTime
  /\ now' = now + 1
  /\ UNCHANGED <<evalVars, dashVars, botVars, srvVars, streamVars, fullScan, srv2, enrich, hl, credentials, http, botWs, bgScan, laterRefresh>>

(***************************************************************************)
(* The dashboard server (src/unnamed/part_000): discovery, tracked set,    *)
(* immediate scans, periodic scan, alerts                                  *)
(***************************************************************************)
\* if (tradeValue >= 500000)
IMMEDIATE_TRADE_USD == 500000
\* ALERT_COOLDOWN: 30 * 60 * 1000: one tick of the model's clock
ALERT_COOLDOWN == 1
\* if (distancePercent > 10), in hundredths of a percent
ALERT_MAX_DISTANCE == 1000

\* Addresses as the stream spells them, and what is not an address.
Users == {"0xA1b2c3d4e5", "0xb2c3d4e5f6"}
Addresses == {toLowerCase(u) : u \in Users}
Platforms == {"telegram", "twitter"}

\* alertKey: user-coin for Telegram, twitter-user-coin for Twitter
alertKey_shared(platform, user, coin) == <<"", user, coin>>

alertKey(platform, user, coin) ==
  <<IF platform = "twitter" THEN "twitter-" ELSE "", user, coin>>
AlertKeys == {alertKey(p, u, c) : p \in Platforms, u \in Addresses, c \in Coins}

\* key = address + '-' + pos.coin
positionKey(address, coin) == <<address, coin>>
PositionKeys == {positionKey(a, c) : a \in Addresses, c \in Coins}

\* A checkAddressImmediately call in flight: the await it stands at, its
\* arguments (tradeCoin is <<>> for null) and the state it holds.
ScanCall(pc, address, tradeCoin, state) ==
  [pc |-> pc, address |-> address, tradeCoin |-> tradeCoin, state |-> state]

\* Answers of clearinghouseState that are not null: an account of $50,000
\* without positions, or with two longs of $2M, in BTC 8% and in kPEPE 4%
\* from liquidation.
UserStates ==
  {[accountValue |-> 50000, assetPositions |-> ps] :
     ps \in {<<>>, <<RawPosition("BTC", 20000, 92), RawPosition("kPEPE", 20000, 96)>>}}

ScanCalls ==
  {ScanCall("state", a, tc, <<>>) : a \in Addresses, tc \in {<<>>} \cup {<<c>> : c \in Coins}}
  \cup
  {ScanCall("enrich", a, tc, <<st>>) :
     a \in Addresses, tc \in {<<>>} \cup {<<c>> : c \in Coins},
     st \in {x \in UserStates : x.assetPositions # <<>>}}

\* A sendAlerts call in flight: at the post to Telegram, at the timer of
\* five seconds, or at the post to Twitter.
AlertCall(pc, user, coin) == [pc |-> pc, user |-> user, coin |-> coin]
AlertCalls == {AlertCall(pc, u, c) : pc \in {"telegram", "timer", "twitter"},
                                     u \in Addresses, c \in Coins}

ScansInFlight == SumOver(scansRunning, ScanCalls)

AlertsInFlight == SumOver(alertsRunning, AlertCalls)

\* The sendAlerts calls in flight for one position key.
alertsOf(calls, key) ==
  SumOver(calls, {c \in AlertCalls : positionKey(c.user, c.coin) = key})

\* The answers of getCachedAllTimePnl and getWalletAge: both null, or a
\* profit of $5 and a wallet of 3 days.
Enrichments == {[allTimePnl |-> <<>>, walletAgeDays |-> <<>>],
                [allTimePnl |-> <<5>>, walletAgeDays |-> <<3>>]}

\* processPosition and the fields set from the enrichment (lines 673-680,
\* 1014-1021).
enriched(processed, e) ==
  [processed EXCEPT !.allTimePnl = e.allTimePnl,
                    !.walletAgeDays = e.walletAgeDays,
                    !.isProfitableWhale = (e.allTimePnl # <<>> /\ e.allTimePnl[1] > 0)]

\* a.distanceToLiq - b.distanceToLiq <= 0
closerOrEqual(a, b) == a.distNum * b.distDen <= b.distNum * a.distDen

\* sort((a, b) => a.distanceToLiq - b.distanceToLiq), a stable sort
RECURSIVE insertSorted(_, _)
insertSorted(sorted, p) ==
  IF sorted = <<>> THEN <<p>>
  ELSE IF closerOrEqual(Head(sorted), p)
       THEN <<Head(sorted)>> \o insertSorted(Tail(sorted), p)
       ELSE <<p>> \o sorted

RECURSIVE sortByDistance(_)
sortByDistance(positions) ==
  IF positions = <<>> THEN <<>>
  ELSE insertSorted(sortByDistance(SubSeq(positions, 1, Len(positions) - 1)),
                    positions[Len(positions)])

\* findIndex(p => p.user === address && p.coin === pos.coin), 0 for -1
findIndex_none(tracked, address, coin) == 0

findIndex(tracked, address, coin) ==
  LET hits == {i \in 1..Len(tracked) : tracked[i].user = address /\ tracked[i].coin = coin}
  IN IF hits = {} THEN 0 ELSE CHOOSE i \in hits : \A j \in hits : i <= j

\* The keys of the tracked positions, and how often a key occurs.
trackedKeys(tracked) == {positionKey(tracked[i].user, tracked[i].coin) : i \in 1..Len(tracked)}

countOf(tracked, key) ==
  Cardinality({i \in 1..Len(tracked) : positionKey(tracked[i].user, tracked[i].coin) = key})

\* The settings that the two platforms use (lines 25-30, 264-265, 333-337),
\* and the library that signs the tweets (line 180).
Credentials ==
  [telegram |-> {"TELEGRAM_BOT_TOKEN", "TELEGRAM_CHANNEL_ID"},
   twitter |-> {"TWITTER_API_KEY", "TWITTER_API_SECRET", "TWITTER_ACCESS_TOKEN",
                "TWITTER_ACCESS_SECRET", "oauthLib"}]

AllCredentials == Credentials.telegram \cup Credentials.twitter

\* The first line of sendTelegramAlert and of sendTwitterAlert (lines 183, 278)
isConfigured_always(platform, present) == TRUE

isConfigured(platform, present) ==
  IF platform = "telegram"
  THEN {"TELEGRAM_BOT_TOKEN", "TELEGRAM_CHANNEL_ID"} \subseteq present
  ELSE {"TWITTER_API_KEY", "TWITTER_ACCESS_TOKEN", "oauthLib"} \subseteq present

\* What the platform can answer to a post: it accepts a message only when
\* it is sent with every credential.
PostAnswers(platform, present) ==
  IF Credentials[platform] \subseteq present THEN BOOLEAN ELSE {FALSE}

\* sendTelegramAlert / sendTwitterAlert up to the awaited post (lines 182-187,
\* 277-282): TRUE when the post is started.
postStarts(platform, user, coin, sent, t) ==
  LET lastAlert == sent[alertKey(platform, user, coin)]
  IN /\ isConfigured(platform, credentials)
     /\ ~(lastAlert # 0 /\ (t - lastAlert) < ALERT_COOLDOWN)

\* sendAlerts up to its first await (lines 349-380): <<>> when it returns, or
\* the call in flight: at the post to Telegram, or, when sendTelegramAlert
\* returns at once, at the timer that line 383 starts.
sendAlerts(position, sent, t, cfgMin) ==
  IF position.positionUSD < cfgMin THEN <<>>
  ELSE IF position.distancePercent > ALERT_MAX_DISTANCE THEN <<>>
  ELSE IF postStarts("telegram", position.user, position.coin, sent, t)
       THEN <<AlertCall("telegram", position.user, position.coin)>>
       ELSE <<AlertCall("timer", position.user, position.coin)>>

\* The loop of checkAddressImmediately over state.assetPositions (lines
\* 669-705) on acc: the tracked set, the known keys, the sendAlerts calls in
\* flight, and the record of what the loop did.
RECURSIVE scanLoop(_, _, _, _, _, _, _, _, _)
scanLoop(assetPositions, address, tradeCoin, state, e, acc, mids, t, cfgMin) ==
  IF assetPositions = <<>> THEN acc
  ELSE LET pos == Head(assetPositions)
           raw == processPosition(address, pos, mids[pos.coin], <<state>>, mids, t, cfgMin)
           processed == enriched(raw, e)
           key == positionKey(address, pos.coin)
           existingIdx == findIndex(acc.tracked, address, pos.coin)
           isPotentialVaultAttack ==
             isShitcoin(pos.coin) /\ processed.positionUSD >= VAULT_POSITION_USD
           calls == IF existingIdx = 0 /\ key \notin acc.known
                       /\ (tradeCoin = <<pos.coin>> \/ isPotentialVaultAttack)
                    THEN sendAlerts(processed, acc.sent, t, cfgMin)
                    ELSE <<>>
           next == IF raw = Null THEN acc
                   ELSE [tracked |-> IF existingIdx > 0
                                     THEN [acc.tracked EXCEPT ![existingIdx] = processed]
                                     ELSE <<processed>> \o acc.tracked,
                         known |-> IF existingIdx = 0 THEN acc.known \cup {key}
                                   ELSE acc.known,
                         sent |-> acc.sent,
                         running |-> IF calls = <<>> THEN acc.running
                                     ELSE [acc.running EXCEPT ![calls[1]] = @ + 1],
                         log |-> Append(acc.log, [coin |-> pos.coin,
                                                  existingIdx |-> existingIdx,
                                                  alerted |-> calls # <<>>])]
       IN scanLoop(Tail(assetPositions), address, tradeCoin, state, e, next, mids, t, cfgMin)

\* The positions that scanPositions collects for one address (lines
\* 1011-1025).
RECURSIVE collect(_, _, _, _, _, _, _)
collect(assetPositions, address, state, e, mids, t, cfgMin) ==
  IF assetPositions = <<>> THEN <<>>
  ELSE LET pos == Head(assetPositions)
           raw == processPosition(address, pos, mids[pos.coin], <<state>>, mids, t, cfgMin)
           rest == collect(Tail(assetPositions), address, state, e, mids, t, cfgMin)
       IN IF raw = Null THEN rest ELSE <<enriched(raw, e)>> \o rest

\* (addressTradeVolume.get(addrLower) || 0) + tradeValue (line 639)
accumulated_reset(volume, tradeValue) == tradeValue

accumulated(volume, tradeValue) == volume + tradeValue

\* if (tradeValue >= 500000) (line 643)
requestsImmediateCheck_everyWhale(tradeValue) == tradeValue >= MIN_TRADE_USD

requestsImmediateCheck(tradeValue) == tradeValue >= IMMEDIATE_TRADE_USD

\* processTradesForDiscovery (lines 610-657) as a fold over the trades and
\* their users: the registry and the addresses and coins of the immediate
\* scans started.  A trade that is null or has no coin has coin "", a user
\* that is no string of 10 characters is a shorter string.
RECURSIVE discoverUsers(_, _, _, _, _)
discoverUsers(users, coin, tradeValue, reg, t) ==
  IF users = <<>> THEN reg
  ELSE LET user == Head(users)
           addrLower == toLowerCase(user)
       IN IF Len(user) < 10 THEN discoverUsers(Tail(users), coin, tradeValue, reg, t)
          ELSE discoverUsers(Tail(users), coin, tradeValue,
                 [known |-> reg.known \cup {addrLower},
                  order |-> IF addrLower \in reg.known THEN reg.order
                            ELSE Append(reg.order, addrLower),
                  lastSeen |-> [reg.lastSeen EXCEPT ![addrLower] = t],
                  volume |-> [reg.volume EXCEPT ![addrLower] = accumulated(@, tradeValue)],
                  started |-> IF requestsImmediateCheck(tradeValue)
                              THEN Append(reg.started, ScanCall("state", addrLower, <<coin>>, <<>>))
                              ELSE reg.started],
                 t)

\* if (tradeValue < CONFIG.MIN_TRADE_USD) continue
belowTradeThreshold_immediate(tradeValue) == tradeValue < IMMEDIATE_TRADE_USD

belowTradeThreshold(tradeValue) == tradeValue < MIN_TRADE_USD

RECURSIVE discover(_, _, _)
discover(trades, reg, t) ==
  IF trades = <<>> THEN reg
  ELSE LET trade == Head(trades)
           tradeValue == Abs(trade.sz) * trade.px
       IN IF trade.coin = "" THEN discover(Tail(trades), reg, t)
          ELSE IF trade.sz = 0 \/ trade.px = 0 THEN discover(Tail(trades), reg, t)
          ELSE IF belowTradeThreshold(tradeValue) THEN discover(Tail(trades), reg, t)
          ELSE discover(Tail(trades),
                        discoverUsers(trade.users, trade.coin, tradeValue, reg, t), t)

\* The calls in flight once a sequence of new calls has started.
RECURSIVE startCalls(_, _)
startCalls(calls, new) ==
  IF new = <<>> THEN calls
  ELSE startCalls([calls EXCEPT ![Head(new)] = @ + 1], Tail(new))

\* A call leaves one await for the next, or ends (to = <<>>).
moveCall(calls, from, to) ==
  LET left == [calls EXCEPT ![from] = @ - 1]
  IN IF to = <<>> THEN left ELSE [left EXCEPT ![to[1]] = @ + 1]

RefreshIdle == [pc |-> "idle", state |-> <<>>]

Trade(coin, sz, px, users) == [coin |-> coin, sz |-> sz, px |-> px, users |-> users]

\* A batch of trades arrives on the stream (lines 610-657); every trade of
\* $500K or more starts checkAddressImmediately for each of its users, which
\* runs up to its await of getUserState.
ProcessTradesForDiscovery(batches, maxVolume, maxTasks) ==
  /\ LET inFlight == ScansInFlight + AlertsInFlight
     IN \E batch \in batches :
          LET reg == discover(batch, [known |-> knownWhaleAddresses,
                                      order |-> registryOrder,
                                      lastSeen |-> addressLastSeen,
                                      volume |-> addressTradeVolume,
                                      started |-> <<>>], now)
          IN /\ \A a \in Addresses : reg.volume[a] <= maxVolume * MIN_TRADE_USD
             /\ inFlight + Len(reg.started) <= maxTasks
             /\ knownWhaleAddresses' = reg.known
             /\ registryOrder' = reg.order
             /\ addressLastSeen' = reg.lastSeen
             /\ addressTradeVolume' = reg.volume
             /\ scansRunning' = startCalls(scansRunning, reg.started)
             /\ lastBatch' = <<batch>>
  /\ UNCHANGED <<now, allMids, minPositionUSD, outsideDash, trackedPositions, knownPositionKeys,
                 sentAlerts, alertsRunning, refresh, lastScan>>

\* POST /api/add-address (lines 1418-1424) up to the await of getUserState.
\* What JSON gives for req.body.address: nothing ("missing"), a text
\* ("string") or a number ("number").
Body(kind, value) == [kind |-> kind, value |-> value]

\* !address: undefined, the empty text and the number 0 are falsy (line 1420)
isFalsy(address) ==
  \/ address.kind = "missing"
  \/ address.kind = "string" /\ address.value = ""
  \/ address.kind = "number" /\ address.value = 0

\* address.startsWith('0x'), for the texts of the model
startsWith0x(text) == text \in {"0x", "0xA1b2c3d4e5", "0xa1b2c3d4e5", "0xb2c3d4e5f6"}

NoRequest == [request |-> <<>>, response |-> <<>>, threw |-> FALSE]

\* The handler of POST /api/add-address waits for checkAddressImmediately.
awaitsScan(h) == h.request # <<>> /\ h.response = <<>> /\ ~h.threw

\* checkAddressImmediately returns to the handler of POST /api/add-address,
\* which answers success (lines 1422-1423).  The calls of the route are
\* those without trade coin.
afterScan(h, c) ==
  IF c.tradeCoin = <<>> /\ awaitsScan(h) /\ toLowerCase(h.request[1].value) = c.address
  THEN [h EXCEPT !.response = <<200>>]
  ELSE h

\* POST /api/add-address (lines 1418-1424) up to its await, one request at a
\* time: it answers 400, or throws on an address that has no startsWith, or
\* adds the address and calls checkAddressImmediately.
AddAddressRequest(bodies, maxTasks) ==
  /\ ~awaitsScan(http)
  /\ \E address \in bodies :
       IF isFalsy(address)
       THEN /\ http' = [request |-> <<address>>, response |-> <<400>>, threw |-> FALSE]
            /\ UNCHANGED <<knownWhaleAddresses, registryOrder, scansRunning>>
       ELSE IF address.kind # "string"
       THEN /\ http' = [request |-> <<address>>, response |-> <<>>, threw |-> TRUE]
            /\ UNCHANGED <<knownWhaleAddresses, registryOrder, scansRunning>>
       ELSE IF ~startsWith0x(address.value)
       THEN /\ http' = [request |-> <<address>>, response |-> <<400>>, threw |-> FALSE]
            /\ UNCHANGED <<knownWhaleAddresses, registryOrder, scansRunning>>
       ELSE /\ ScansInFlight + AlertsInFlight + 1 <= maxTasks
            /\ http' = [request |-> <<address>>, response |-> <<>>, threw |-> FALSE]
            /\ knownWhaleAddresses' = knownWhaleAddresses \cup {toLowerCase(address.value)}
            /\ registryOrder' = IF toLowerCase(address.value) \in knownWhaleAddresses
                                THEN registryOrder
                                ELSE Append(registryOrder, toLowerCase(address.value))
            /\ scansRunning' = startCalls(scansRunning,
                                 <<ScanCall("state", toLowerCase(address.value), <<>>, <<>>)>>)
  /\ UNCHANGED <<now, allMids, minPositionUSD, beyondDash, addressLastSeen, addressTradeVolume,
                 trackedPositions, knownPositionKeys, sentAlerts, alertsRunning, refresh,
                 lastScan, lastBatch>>

\* The bodies of the requests: no address, the empty text, the number 0, a
\* text without the prefix, the addresses of both accounts, a number.
AddBodies ==
  {Body("missing", ""), Body("string", ""), Body("number", 0), Body("string", "a1b2c3d4e5"),
   Body("string", "0xA1b2c3d4e5"), Body("string", "0xb2c3d4e5f6"), Body("number", 123)}

AddMaxTasks == 2

AddRequest == AddAddressRequest(AddBodies, AddMaxTasks)

\* POST /api/add-address with the address of the first account; the answer
\* is not recorded.
AddAddress ==
  /\ \E address \in {"0xA1b2c3d4e5"} :
       /\ ScansInFlight + AlertsInFlight + 1 <= DashMaxTasks
       /\ knownWhaleAddresses' = knownWhaleAddresses \cup {toLowerCase(address)}
       /\ scansRunning' = startCalls(scansRunning,
                                     <<ScanCall("state", toLowerCase(address), <<>>, <<>>)>>)
       /\ registryOrder' = IF toLowerCase(address) \in knownWhaleAddresses THEN registryOrder
                           ELSE Append(registryOrder, toLowerCase(address))
  /\ UNCHANGED <<now, allMids, minPositionUSD, outsideDash, addressLastSeen, addressTradeVolume,
                 trackedPositions, knownPositionKeys, sentAlerts, alertsRunning, refresh,
                 lastScan, lastBatch>>

\* checkAddressImmediately resumes with the answer of getUserState (lines
\* 664-666): null when the request failed after its retries.  With positions
\* it awaits the enrichment, without it ends.
ScanStateAnswer(c, answers) ==
  /\ c.pc = "state"
  /\ scansRunning[c] > 0
  /\ \E ans \in answers :
       IF ans # <<>> /\ ans[1].assetPositions # <<>>
       THEN /\ scansRunning' = moveCall(scansRunning, c,
                                        <<[c EXCEPT !.pc = "enrich", !.state = ans]>>)
            /\ UNCHANGED http
       ELSE /\ scansRunning' = moveCall(scansRunning, c, <<>>)
            /\ http' = afterScan(http, c)
  /\ UNCHANGED <<now, allMids, minPositionUSD, beyondDash, knownWhaleAddresses, registryOrder, addressLastSeen,
                 addressTradeVolume, trackedPositions, knownPositionKeys, sentAlerts,
                 alertsRunning, refresh, lastScan, lastBatch>>

\* checkAddressImmediately resumes with the enrichment (lines 666-706): it
\* processes the positions of the state it holds against the tracked set as
\* it is now, fires the alerts of new keys, and sorts.
ScanEnrichAnswer(c) ==
  /\ c.pc = "enrich"
  /\ scansRunning[c] > 0
  /\ \E e \in Enrichments :
       LET acc == scanLoop(c.state[1].assetPositions, c.address, c.tradeCoin, c.state[1], e,
                           [tracked |-> trackedPositions, known |-> knownPositionKeys,
                            sent |-> sentAlerts, running |-> alertsRunning, log |-> <<>>],
                           allMids, now, minPositionUSD)
       IN /\ trackedPositions' = sortByDistance(acc.tracked)
          /\ knownPositionKeys' = acc.known
          /\ alertsRunning' = acc.running
          /\ lastScan' = acc.log
  /\ scansRunning' = moveCall(scansRunning, c, <<>>)
  /\ http' = afterScan(http, c)
  /\ UNCHANGED <<now, allMids, minPositionUSD, beyondDash, knownWhaleAddresses, registryOrder, addressLastSeen,
                 addressTradeVolume, sentAlerts, refresh, lastBatch>>

\* The end of the try block and the catch (lines 263-274, 331-346): the
\* time is written to sentAlerts after the awaited post, which throws when
\* the platform does not accept the message.
afterPost_always(sent, key, accepted, t) == [sent EXCEPT ![key] = t]

afterPost(sent, key, accepted, t) ==
  IF accepted THEN [sent EXCEPT ![key] = t] ELSE sent

\* The post to Telegram ends (lines 262-274): accepted, and the time is
\* written to sentAlerts, or failed; sendAlerts starts the timer (line 383).
TelegramPost(a, accepted) ==
  /\ a.pc = "telegram"
  /\ alertsRunning[a] > 0
  /\ sentAlerts' = afterPost(sentAlerts, alertKey("telegram", a.user, a.coin), accepted, now)
  /\ alertsRunning' = moveCall(alertsRunning, a, <<[a EXCEPT !.pc = "timer"]>>)
  /\ UNCHANGED <<now, allMids, minPositionUSD, outsideDash, knownWhaleAddresses, registryOrder, addressLastSeen,
                 addressTradeVolume, trackedPositions, knownPositionKeys, scansRunning, refresh,
                 lastScan, lastBatch>>

TelegramPostEnds(a) == \E accepted \in PostAnswers("telegram", credentials) : TelegramPost(a, accepted)

\* The timer fires and sendTwitterAlert runs up to its post (lines 277-282,
\* 383).
TwitterTimerFires(a) ==
  /\ a.pc = "timer"
  /\ alertsRunning[a] > 0
  /\ alertsRunning' = moveCall(alertsRunning, a,
                               IF postStarts("twitter", a.user, a.coin, sentAlerts, now)
                               THEN <<[a EXCEPT !.pc = "twitter"]>> ELSE <<>>)
  /\ UNCHANGED <<now, allMids, minPositionUSD, outsideDash, knownWhaleAddresses, registryOrder, addressLastSeen,
                 addressTradeVolume, trackedPositions, knownPositionKeys, sentAlerts,
                 scansRunning, refresh, lastScan, lastBatch>>

\* The post to Twitter ends (lines 341-346).
TwitterPost(a, accepted) ==
  /\ a.pc = "twitter"
  /\ alertsRunning[a] > 0
  /\ sentAlerts' = afterPost(sentAlerts, alertKey("twitter", a.user, a.coin), accepted, now)
  /\ alertsRunning' = moveCall(alertsRunning, a, <<>>)
  /\ UNCHANGED <<now, allMids, minPositionUSD, outsideDash, knownWhaleAddresses, registryOrder, addressLastSeen,
                 addressTradeVolume, trackedPositions, knownPositionKeys, scansRunning, refresh,
                 lastScan, lastBatch>>

TwitterPostEnds(a) == \E accepted \in PostAnswers("twitter", credentials) : TwitterPost(a, accepted)

\* The timer starts refreshPositions (lines 1036-1043), which awaits
\* getAllMids.  One refresh runs at a time, over a registry of one address.
RefreshStarts ==
  /\ refresh.pc = "idle"
  /\ Cardinality(knownWhaleAddresses) = 1
  /\ refresh' = [pc |-> "mids", state |-> <<>>]
  /\ UNCHANGED <<now, allMids, minPositionUSD, outsideDash, knownWhaleAddresses, registryOrder, addressLastSeen,
                 addressTradeVolume, trackedPositions, knownPositionKeys, sentAlerts,
                 scansRunning, alertsRunning, lastScan, lastBatch>>

\* getAllMids answers (lines 1043-1051): new prices replace the cache, no
\* prices keep a cache that has prices, and without any price the refresh
\* returns.  Then scanPositions awaits getUserState (line 1009).
RefreshMidsAnswer ==
  /\ refresh.pc = "mids"
  /\ \E price \in {0, 100} :
       LET newMids == [c \in Coins |-> price]
           cached == \E c \in Coins : allMids[c] # 0
       IN /\ allMids' = IF price # 0 THEN newMids ELSE allMids
          /\ refresh' = IF price # 0 \/ cached THEN [pc |-> "state", state |-> <<>>]
                        ELSE RefreshIdle
  /\ UNCHANGED <<now, minPositionUSD, outsideDash, knownWhaleAddresses, registryOrder, addressLastSeen,
                 addressTradeVolume, trackedPositions, knownPositionKeys, sentAlerts,
                 scansRunning, alertsRunning, lastScan, lastBatch>>

\* getUserState answers the scan (lines 1009-1010): with a state the scan
\* awaits the enrichment; with null it has no positions, and
\* refreshPositions replaces trackedPositions (lines 1030-1033, 1055).
RefreshStateAnswer ==
  /\ refresh.pc = "state"
  /\ \E ans \in {<<>>} \cup {<<st>> : st \in UserStates} :
       IF ans = <<>>
       THEN /\ trackedPositions' = sortByDistance(<<>>)
            /\ refresh' = RefreshIdle
       ELSE /\ refresh' = [pc |-> "enrich", state |-> ans]
            /\ UNCHANGED trackedPositions
  /\ UNCHANGED <<now, allMids, minPositionUSD, outsideDash, knownWhaleAddresses, registryOrder, addressLastSeen,
                 addressTradeVolume, knownPositionKeys, sentAlerts, scansRunning, alertsRunning,
                 lastScan, lastBatch>>

\* The enrichment answers the scan (lines 1012-1033): the positions of the
\* state it holds are processed, sorted, and replace trackedPositions (line
\* 1055).  No alert is sent.
RefreshEnrichAnswer ==
  /\ refresh.pc = "enrich"
  /\ \E e \in Enrichments : \E address \in knownWhaleAddresses :
       trackedPositions' =
         sortByDistance(collect(refresh.state[1].assetPositions, address, refresh.state[1], e,
                                allMids, now, minPositionUSD))
  /\ refresh' = RefreshIdle
  /\ UNCHANGED <<now, allMids, minPositionUSD, outsideDash, knownWhaleAddresses, registryOrder, addressLastSeen,
                 addressTradeVolume, knownPositionKeys, sentAlerts, scansRunning, alertsRunning,
                 lastScan, lastBatch>>

Tick ==
  /\ now < MaxTime
  /\ now' = now + 1
  /\ UNCHANGED <<evalVars, dashVars, botVars, srvVars, streamVars, fullScan, srv2, enrich, hl, credentials, http, botWs, bgScan, laterRefresh>>

\* Batches of the stream for the tracked set: one BTC trade of one account,
\* of $99,900 or $500,000.
DashBatches == {<<Trade("BTC", sz, 100, <<"0xA1b2c3d4e5">>)>> : sz \in {999, 5000}}

DashProcessTrades == ProcessTradesForDiscovery(DashBatches, DashMaxVolume, DashMaxTasks)

DashScanStateAnswer(c) == ScanStateAnswer(c, {<<>>} \cup {<<st>> : st \in UserStates})

\* Trades of the stream for the registry: of one account under, at and over
\* the discovery threshold; without coin, without size, without users;
\* between two accounts; with a user that is no address; with one account
\* on both sides; just under the threshold of the immediate check; and over
\* it, between two accounts and with a user that is no address.
DiscTrades ==
  {Trade("BTC", sz, 100, <<"0xA1b2c3d4e5">>) : sz \in {0, 999, 1000, 5000}}
  \cup {Trade("", 1000, 100, <<"0xA1b2c3d4e5">>),
        Trade("kPEPE", 1000, 100, <<>>),
        Trade("kPEPE", 0 - 1000, 100, <<"0xA1b2c3d4e5", "0xb2c3d4e5f6">>),
        Trade("kPEPE", 1000, 100, <<"0xbad", "0xb2c3d4e5f6">>),
        Trade("BTC", 1000, 100, <<"0xb2c3d4e5f6", "0xb2c3d4e5f6">>),
        Trade("kPEPE", 4999, 100, <<"0xb2c3d4e5f6">>),
        Trade("kPEPE", 0 - 6000, 100, <<"0xA1b2c3d4e5", "0xb2c3d4e5f6">>),
        Trade("BTC", 6000, 100, <<"0xbad", "0xb2c3d4e5f6">>)}

\* A batch holds one trade, or two trades of the first account.
DiscBatches ==
  {<<t>> : t \in DiscTrades}
  \cup {<<Trade("BTC", sz, 100, <<"0xA1b2c3d4e5">>), Trade("BTC", 1000, 100, <<"0xA1b2c3d4e5">>)>> :
          sz \in {999, 1000}}

DiscProcessTrades == ProcessTradesForDiscovery(DiscBatches, DiscMaxVolume, DiscMaxTasks)

\* The request of an immediate scan fails, and the scan ends.
DiscScanFails(c) == ScanStateAnswer(c, {<<>>})

\* A burst on the stream: one message of one to three trades of $500,000 or
\* $600,000 between the two accounts.
BurstMaxTasks == 6
BurstMaxVolume == 24

\* for (let i = 0; i < addresses.length; i += 20) in backgroundLiquidatableScan
\* (line 1126): twice the batch of scanPositions.
BACKGROUND_BATCH_SIZE == 4

BurstTrades == {Trade("BTC", sz, 100, <<"0xA1b2c3d4e5", "0xb2c3d4e5f6">>) : sz \in {5000, 6000}}

BurstBatches ==
  {<<t>> : t \in BurstTrades}
  \cup {<<t, u>> : t, u \in BurstTrades}
  \cup {<<t, u, v>> : t, u, v \in BurstTrades}

BurstProcessTrades == ProcessTradesForDiscovery(BurstBatches, BurstMaxVolume, BurstMaxTasks)

(***************************************************************************)
(* The trade stream of the dashboard server (src/unnamed/part_000, lines   *)
(* 535-608 and 1099-1109): connection, reconnection, health check.  One    *)
(* tick of the clock is five seconds in this part.                         *)
(***************************************************************************)
\* Math.min(5000 * wsReconnectAttempts, 30000): five seconds per attempt
RECONNECT_STEP == 1
\* Math.min(5000 * wsReconnectAttempts, 30000): thirty seconds at most
RECONNECT_CAP == 6
\* setTimeout(connectWebSocket, 5000) when the construction failed
RECONNECT_AFTER_THROW == 1
\* setInterval(..., 30000)
HEALTH_INTERVAL == 6
\* (Date.now() - lastTradeReceived) > 120000
IDLE_WINDOW == 24
\* await new Promise(r => setTimeout(r, 5000)) between connectWebSocket and
\* the start of the interval, in initialize
DISCOVERY_WAIT == 1

\* The sockets that exist at one time.  A socket that has closed is kept
\* while ws refers to it (readyState 3), and is garbage otherwise.
Slots == 1..StreamMaxSockets

NoSocket == [readyState |-> "none", subscribed |-> FALSE]

Socket(readyState, subscribed) == [readyState |-> readyState, subscribed |-> subscribed]

\* A connection that is connecting or open.
Live(socket) == socket.readyState \in {"connecting", "open"}

LiveSockets == {s \in Slots : Live(wsSockets[s])}

\* The sockets on which the venue delivers the trades.
Receivers == {s \in Slots : wsSockets[s].readyState = "open" /\ wsSockets[s].subscribed}

\* Math.min(5000 * wsReconnectAttempts, 30000)
reconnectDelay(attempts) ==
  IF RECONNECT_STEP * attempts < RECONNECT_CAP THEN RECONNECT_STEP * attempts ELSE RECONNECT_CAP

\* setTimeout(connectWebSocket, delay): the pending timers, by time
RECURSIVE addTimer(_, _)
addTimer(timers, due) ==
  IF timers = <<>> THEN <<due>>
  ELSE IF Head(timers) <= due THEN <<Head(timers)>> \o addTimer(Tail(timers), due)
       ELSE <<due>> \o timers

removeTimer(timers, i) == SubSeq(timers, 1, i - 1) \o SubSeq(timers, i + 1, Len(timers))

\* The latest time at which a pending timer fires (0: none is pending).
lastDue(timers) == IF timers = <<>> THEN 0 ELSE timers[Len(timers)]

\* The sockets once ws is about to refer to a new one: a closed socket that
\* only ws referred to is garbage.
released(st) ==
  [s \in Slots |-> IF s = st.ws /\ st.sockets[s].readyState = "closed"
                   THEN NoSocket ELSE st.sockets[s]]

\* connectWebSocket (lines 543-608) on st = [ws, sockets, timers] at time t:
\* new WebSocket(...) throws and the catch sets a timer of five seconds, or
\* it returns a connecting socket that ws refers to from now on.  The
\* handlers of the socket are the actions below.
connectWebSocket(st, throws, t) ==
  IF throws
  THEN [st EXCEPT !.timers = addTimer(@, t + RECONNECT_AFTER_THROW)]
  ELSE LET kept == released(st)
           slot == CHOOSE s \in Slots :
                     kept[s] = NoSocket /\ \A r \in Slots : kept[r] = NoSocket => s <= r
       IN [st EXCEPT !.ws = slot,
                     !.sockets = [kept EXCEPT ![slot] = Socket("connecting", FALSE)]]

\* The model has room for the socket or for the timer of the call.
roomToConnect(st, throws) ==
  IF throws THEN Len(st.timers) < StreamMaxTimers
  ELSE \E s \in Slots : released(st)[s] = NoSocket

StreamState == [ws |-> ws, sockets |-> wsSockets, timers |-> wsTimers]

\* The delays scheduled since the last open, after one more.
delaysAfter(hist, delay) == [prev |-> hist.delays.last, last |-> delay]

NoDelays == [prev |-> 0, last |-> 0]

NoStreamHist == [delivered |-> 0, delays |-> NoDelays, attempt |-> <<>>, health |-> <<>>]

\* initialize (lines 1075-1109): connectWebSocket, five seconds of waiting,
\* a refresh, and the start of the health check every thirty seconds.
StreamInitialize(throwing) ==
  /\ nextHealthCheck = 0
  /\ \E throws \in throwing :
       LET st == connectWebSocket(StreamState, throws, now)
       IN /\ roomToConnect(StreamState, throws)
          /\ ws' = st.ws
          /\ wsSockets' = st.sockets
          /\ wsTimers' = st.timers
          /\ streamHist' = IF throws
                           THEN [streamHist EXCEPT
                                   !.delays = delaysAfter(streamHist, RECONNECT_AFTER_THROW)]
                           ELSE streamHist
  /\ nextHealthCheck' = now + DISCOVERY_WAIT + HEALTH_INTERVAL
  /\ UNCHANGED <<now, dashVars, outsideStream, wsReconnectAttempts, lastTradeReceived>>

\* ws.on('open') of socket s (lines 547-556): the counter is reset and the
\* subscriptions are sent on the socket that ws refers to, which takes them
\* when it is open.
StreamSocketOpens(s) ==
  /\ wsSockets[s].readyState = "connecting"
  /\ wsReconnectAttempts' = 0
  /\ LET opened == [wsSockets EXCEPT ![s].readyState = "open"]
     IN wsSockets' = IF ws # 0 /\ opened[ws].readyState = "open"
                     THEN [opened EXCEPT ![ws].subscribed = TRUE]
                     ELSE opened
  /\ streamHist' = [streamHist EXCEPT !.delays = NoDelays]
  /\ UNCHANGED <<now, dashVars, outsideStream, ws, lastTradeReceived, wsTimers, nextHealthCheck>>

\* ws.on('close') of socket s (lines 595-599): the counter grows and a timer
\* is set for connectWebSocket.
StreamSocketCloses(s) ==
  /\ wsSockets[s].readyState \in {"connecting", "open", "closing"}
  /\ Len(wsTimers) < StreamMaxTimers
  /\ wsReconnectAttempts' = wsReconnectAttempts + 1
  /\ wsTimers' = addTimer(wsTimers, now + reconnectDelay(wsReconnectAttempts + 1))
  /\ wsSockets' = [wsSockets EXCEPT ![s] = IF ws = s THEN Socket("closed", FALSE) ELSE NoSocket]
  /\ streamHist' = [streamHist EXCEPT
                      !.delays = delaysAfter(streamHist, reconnectDelay(wsReconnectAttempts + 1))]
  /\ UNCHANGED <<now, dashVars, outsideStream, ws, lastTradeReceived, nextHealthCheck>>

\* A timer of setTimeout(connectWebSocket, ...) fires (lines 598, 606).
StreamTimerFires(throwing) ==
  /\ \E i \in 1..Len(wsTimers) : \E throws \in throwing :
       LET before == [StreamState EXCEPT !.timers = removeTimer(wsTimers, i)]
           st == connectWebSocket(before, throws, now)
       IN /\ wsTimers[i] <= now
          /\ roomToConnect(before, throws)
          /\ ws' = st.ws
          /\ wsSockets' = st.sockets
          /\ wsTimers' = st.timers
          /\ streamHist' =
               [streamHist EXCEPT
                  !.attempt = <<[at |-> now, cause |-> "timer", due |-> wsTimers[i],
                                 volumes |-> addressTradeVolume]>>,
                  !.delays = IF throws THEN delaysAfter(streamHist, RECONNECT_AFTER_THROW)
                             ELSE @]
  /\ UNCHANGED <<now, dashVars, outsideStream, wsReconnectAttempts, lastTradeReceived,
                 nextHealthCheck>>

\* The health check (lines 1100-1109): without an open socket it calls
\* connectWebSocket; with an open socket and a last trade message older than
\* two minutes it closes the socket and calls connectWebSocket.
StreamHealthCheck(throwing) ==
  /\ nextHealthCheck # 0
  /\ now = nextHealthCheck
  /\ nextHealthCheck' = now + HEALTH_INTERVAL
  /\ LET open == ws # 0 /\ wsSockets[ws].readyState = "open"
         stale == lastTradeReceived > 0 /\ (now - lastTradeReceived) > IDLE_WINDOW
         seen == [at |-> now, open |-> open, lastTrade |-> lastTradeReceived,
                  reconnects |-> ~open \/ stale]
     IN IF ~open \/ stale
        THEN \E throws \in throwing :
               LET before == IF open
                             THEN [StreamState EXCEPT !.sockets[ws].readyState = "closing",
                                                      !.sockets[ws].subscribed = FALSE]
                             ELSE StreamState
                   st == connectWebSocket(before, throws, now)
               IN /\ roomToConnect(before, throws)
                  /\ ws' = st.ws
                  /\ wsSockets' = st.sockets
                  /\ wsTimers' = st.timers
                  /\ streamHist' =
                       [streamHist EXCEPT
                          !.health = <<seen>>,
                          !.attempt = <<[at |-> now,
                                         cause |-> IF open THEN "stale" ELSE "health",
                                         due |-> lastDue(wsTimers),
                                         volumes |-> addressTradeVolume]>>,
                          !.delays = IF throws
                                     THEN delaysAfter(streamHist, RECONNECT_AFTER_THROW)
                                     ELSE @]
        ELSE /\ streamHist' = [streamHist EXCEPT !.health = <<seen>>]
             /\ UNCHANGED <<ws, wsSockets, wsTimers>>
  /\ UNCHANGED <<now, dashVars, outsideStream, wsReconnectAttempts, lastTradeReceived>>

\* The batch of a trades message runs through processTradesForDiscovery once
\* for every socket that delivers it.
RECURSIVE deliver(_, _, _, _)
deliver(n, batch, reg, t) ==
  IF n = 0 THEN reg ELSE deliver(n - 1, batch, discover(batch, reg, t), t)

\* The venue publishes trades and ws.on('message') runs for every subscribed
\* socket (lines 558-577): lastTradeReceived is set and the batch goes to
\* processTradesForDiscovery.
StreamTradeMessage(batches, maxVolume, maxTasks) ==
  /\ Receivers # {}
  /\ lastTradeReceived' = now
  /\ streamHist' = [streamHist EXCEPT !.delivered = Cardinality(Receivers)]
  /\ \E batch \in batches :
       LET reg == deliver(Cardinality(Receivers), batch,
                          [known |-> knownWhaleAddresses, order |-> registryOrder,
                           lastSeen |-> addressLastSeen, volume |-> addressTradeVolume,
                           started |-> <<>>], now)
       IN /\ \A a \in Addresses : reg.volume[a] <= maxVolume * MIN_TRADE_USD
          /\ ScansInFlight + AlertsInFlight + Len(reg.started) <= maxTasks
          /\ knownWhaleAddresses' = reg.known
          /\ registryOrder' = reg.order
          /\ addressLastSeen' = reg.lastSeen
          /\ addressTradeVolume' = reg.volume
          /\ scansRunning' = startCalls(scansRunning, reg.started)
          /\ lastBatch' = <<batch>>
  /\ UNCHANGED <<now, outsideStream, trackedPositions, knownPositionKeys, sentAlerts,
                 alertsRunning, refresh, lastScan, ws, wsSockets, wsReconnectAttempts, wsTimers,
                 nextHealthCheck>>

\* Time passes once initialize has run, when no timer and no health check is
\* due.
StreamTick(maxTime) ==
  /\ now < maxTime
  /\ nextHealthCheck # 0
  /\ now < nextHealthCheck
  /\ \A i \in 1..Len(wsTimers) : now < wsTimers[i]
  /\ now' = now + 1
  /\ UNCHANGED <<evalVars, dashVars, botVars, srvVars, streamVars, fullScan, srv2, enrich, hl, credentials, http, botWs, bgScan, laterRefresh>>

\* Trade messages of the stream: one trade of one account, under or at the
\* discovery threshold.
StreamBatches == {<<Trade("BTC", sz, 100, <<"0xA1b2c3d4e5">>)>> : sz \in {999, 1000}}

\* The stream with a venue that may close any socket and a construction
\* that may fail.
StreamStarts == StreamInitialize(BOOLEAN)

StreamReconnectTimer == StreamTimerFires(BOOLEAN)

StreamHealth == StreamHealthCheck(BOOLEAN)

StreamTrades == StreamTradeMessage(StreamBatches, StreamMaxVolume, 0)

StreamTime == StreamTick(StreamMaxTime)

\* The stream with a venue that goes silent: a socket closes only after
\* ws.close(), and every construction succeeds.
WatchStarts == StreamInitialize({FALSE})

WatchSocketCloses(s) == wsSockets[s].readyState = "closing" /\ StreamSocketCloses(s)

WatchReconnectTimer == StreamTimerFires({FALSE})

WatchHealth == StreamHealthCheck({FALSE})

WatchTrades == StreamTradeMessage(StreamBatches, StreamMaxVolume, 0)

WatchTime == StreamTick(WatchMaxTime)

(***************************************************************************)
(* The message handler of the stream on any text that the venue may send   *)
(* (src/unnamed/part_000, lines 558-593 and 610-657)                       *)
(***************************************************************************)
\* What JSON gives for trade.sz and trade.px: a number or a numeric string
\* ("number"), a string that begins with a number, as "5000abc" ("prefix"),
\* any other value ("junk") or nothing ("missing").
RawNumber(kind, n) == [kind |-> kind, n |-> n]

\* parseFloat(v || 0) (lines 621-622).  0 stands for NaN too: both fail the
\* test of line 623.
parseFloatOr0(v) == IF v.kind \in {"number", "prefix"} THEN v.n ELSE 0

\* What JSON gives for trade.users: an array ("array"), another value, as a
\* single address ("other"), or nothing ("missing").
RawUsers(kind, list) == [kind |-> kind, list |-> list]

\* The users without the test Array.isArray: any value is taken as the list.
usersOf_anyValue(v) == v.list

\* trade.users || [] behind the test Array.isArray (lines 628-629)
usersOf(v) == IF v.kind = "array" THEN v.list ELSE <<>>

\* A trade as it is written in the message; coin "" is a trade without coin.
RawTrade(coin, sz, px, users) == [coin |-> coin, sz |-> sz, px |-> px, users |-> users]

\* The trade that processTradesForDiscovery works with (lines 618-630).
parseTrade(raw) == Trade(raw.coin, parseFloatOr0(raw.sz), parseFloatOr0(raw.px), usersOf(raw.users))

parseTrades(batch) == [i \in 1..Len(batch) |-> parseTrade(batch[i])]

\* A message of the stream: a text that JSON.parse rejects ("unparseable"),
\* a trades message whose data is not an array ("notArray"), or a trades
\* message with an array of trades ("trades").
RawMessage(kind, trades) == [kind |-> kind, trades |-> trades]

\* msg.channel === 'trades' && Array.isArray(msg.data) && msg.data.length > 0
\* (lines 566-567); JSON.parse throws into the catch of line 590 otherwise.
hasTrades(m) == m.kind = "trades" /\ m.trades # <<>>

RawWhaleUsers == RawUsers("array", <<"0xA1b2c3d4e5">>)

\* Trades of $500,000 with one field missing or of another type.
RawBadTrades ==
  {RawTrade("", RawNumber("number", 5000), RawNumber("number", 100), RawWhaleUsers),
   RawTrade("BTC", RawNumber("missing", 0), RawNumber("number", 100), RawWhaleUsers),
   RawTrade("BTC", RawNumber("junk", 0), RawNumber("number", 100), RawWhaleUsers),
   RawTrade("BTC", RawNumber("prefix", 5000), RawNumber("number", 100), RawWhaleUsers),
   RawTrade("BTC", RawNumber("number", 5000), RawNumber("junk", 0), RawWhaleUsers),
   RawTrade("BTC", RawNumber("number", 5000), RawNumber("number", 100), RawUsers("missing", <<>>)),
   RawTrade("BTC", RawNumber("number", 5000), RawNumber("number", 100),
            RawUsers("other", <<"0xA1b2c3d4e5">>))}

RawSmallTrade == RawTrade("BTC", RawNumber("number", 1000), RawNumber("number", 100), RawWhaleUsers)

RawLargeTrade == RawTrade("BTC", RawNumber("number", 0 - 5000), RawNumber("number", 100), RawWhaleUsers)

RawMessages ==
  {RawMessage("unparseable", <<>>), RawMessage("notArray", <<>>), RawMessage("trades", <<>>),
   RawMessage("trades", <<RawSmallTrade>>), RawMessage("trades", <<RawLargeTrade>>)}
  \cup {RawMessage("trades", <<bad>>) : bad \in RawBadTrades}
  \cup {RawMessage("trades", <<bad, RawSmallTrade>>) : bad \in RawBadTrades}
  \cup {RawMessage("trades", <<RawLargeTrade, bad>>) : bad \in RawBadTrades}

\* ws.on('message') (lines 558-593) on one message, on every connection
\* that receives the trades.
StreamRawMessage(messages, maxVolume, maxTasks) ==
  /\ Receivers # {}
  /\ \E m \in messages :
       /\ lastBatch' = <<m>>
       /\ IF hasTrades(m)
          THEN LET reg == deliver(Cardinality(Receivers), parseTrades(m.trades),
                                  [known |-> knownWhaleAddresses, order |-> registryOrder,
                                   lastSeen |-> addressLastSeen, volume |-> addressTradeVolume,
                                   started |-> <<>>], now)
               IN /\ \A a \in Addresses : reg.volume[a] <= maxVolume * MIN_TRADE_USD
                  /\ ScansInFlight + AlertsInFlight + Len(reg.started) <= maxTasks
                  /\ lastTradeReceived' = now
                  /\ streamHist' = [streamHist EXCEPT !.delivered = Cardinality(Receivers)]
                  /\ knownWhaleAddresses' = reg.known
                  /\ registryOrder' = reg.order
                  /\ addressLastSeen' = reg.lastSeen
                  /\ addressTradeVolume' = reg.volume
                  /\ scansRunning' = startCalls(scansRunning, reg.started)
          ELSE UNCHANGED <<lastTradeReceived, streamHist, knownWhaleAddresses, registryOrder,
                           addressLastSeen, addressTradeVolume, scansRunning>>
  /\ UNCHANGED <<now, outsideStream, trackedPositions, knownPositionKeys, sentAlerts,
                 alertsRunning, refresh, lastScan, ws, wsSockets, wsReconnectAttempts, wsTimers,
                 nextHealthCheck>>

RawMaxVolume == 6

RawMaxTasks == 2

RawTrades == StreamRawMessage(RawMessages, RawMaxVolume, RawMaxTasks)

(***************************************************************************)
(* The registry of the dashboard server under all its writers              *)
(* (src/unnamed/part_000): database load, stream, leaderboard, manual add  *)
(***************************************************************************)
\* The first address of the curated list of fetchTopTradersAlternative
\* stands for the list (lines 1231-1239).
FallbackWhales == <<"0xb2c3d4e5f6">>

\* The rows that loadWhalesFromDb reads (line 78), in the order of the query:
\* none, or the first account with a volume of $200,000.
DbRows == {<<>>, <<[address |-> "0xA1b2c3d4e5", total_volume |-> 200000]>>}

\* loadWhalesFromDb (lines 75-87) on an empty registry.
RECURSIVE loadWhalesFromDb(_, _)
loadWhalesFromDb(rows, reg) ==
  IF rows = <<>> THEN reg
  ELSE LET a == toLowerCase(Head(rows).address)
       IN loadWhalesFromDb(Tail(rows),
            [known |-> reg.known \cup {a},
             order |-> IF a \in reg.known THEN reg.order ELSE Append(reg.order, a),
             volume |-> [reg.volume EXCEPT ![a] = Head(rows).total_volume]])

\* The addresses of the rows in the order of the rows, each once, after the
\* addresses that are already in the set.
addAll_replace(order, rows) ==
  IF rows = <<>> THEN <<>> ELSE <<toLowerCase(rows[Len(rows)])>>

RECURSIVE addAll(_, _)
addAll(order, rows) ==
  IF rows = <<>> THEN order
  ELSE LET a == toLowerCase(Head(rows))
       IN addAll(IF \E i \in 1..Len(order) : order[i] = a THEN order ELSE Append(order, a),
                 Tail(rows))

\* The answers of the leaderboard: rows with the addresses as the venue
\* spells them.
LeaderboardRows == {<<>>, <<"0xb2c3d4e5f6">>, <<"0xb2c3d4e5f6", "0xA1b2c3d4e5">>}

\* fetchLeaderboardTraders (lines 1201-1226) once the request has answered:
\* every row's address is added in lower case; when the request fails the
\* curated list is added instead.
FetchLeaderboard(answers) ==
  /\ \E failed \in BOOLEAN : \E rows \in answers :
       LET added == IF failed THEN addAll(registryOrder, FallbackWhales)
                    ELSE addAll(registryOrder, rows)
       IN /\ failed => rows = <<>>
          /\ registryOrder' = added
          /\ knownWhaleAddresses' = {added[i] : i \in 1..Len(added)}
  /\ UNCHANGED <<now, allMids, minPositionUSD, outsideDash, addressLastSeen, addressTradeVolume,
                 trackedPositions, knownPositionKeys, sentAlerts, scansRunning, alertsRunning,
                 refresh, lastScan, lastBatch>>

FetchLeaderboardTraders == FetchLeaderboard(LeaderboardRows)

\* A leaderboard of four accounts, two of which the stream never names.
CapacityRows ==
  {<<"0xb2c3d4e5f6", "0xc3d4e5f6a7">>,
   <<"0xc3d4e5f6a7", "0xA1b2c3d4e5", "0xd4e5f6a7b8", "0xb2c3d4e5f6">>}

CapacityLeaderboard == FetchLeaderboard(CapacityRows)

\* Trade messages for the registry: a trade of the first account, and a
\* trade between the two accounts, at the discovery threshold.
RegBatches == {<<Trade("BTC", 1000, 100, <<"0xA1b2c3d4e5">>)>>,
               <<Trade("kPEPE", 1000, 100, <<"0xA1b2c3d4e5", "0xb2c3d4e5f6">>)>>}

RegTrades == StreamTradeMessage(RegBatches, RegMaxVolume, DashMaxTasks)

RegTime == StreamTick(MaxTime)

(***************************************************************************)
(* The first dashboard server (src/server.js, lines 1-688): alert path     *)
(***************************************************************************)
SRV_MIN_POSITION_USD == 2000000
SRV_MIN_TRADE_USD == 100000
SRV_DANGER_THRESHOLD_5 == 5
SRV_DANGER_THRESHOLD_10 == 10
\* if (tradeValue >= 500000)
SRV_IMMEDIATE_TRADE_USD == 500000
\* ALERT_COOLDOWN: 5 * 60 * 1000: one tick of the model's clock
SRV_ALERT_COOLDOWN == 1
\* position.walletAgeDays > 7
SRV_NEW_WALLET_DAYS == 7

SrvCoins == {"BTC"}
SrvUsers == {"0xa1b2c3d4e5"}
SrvPlatforms == {"telegram", "twitter"}

\* alertKey: user-coin for Telegram, twitter-user-coin for Twitter
srvAlertKey(platform, user, coin) ==
  <<IF platform = "twitter" THEN "twitter-" ELSE "", user, coin>>
SrvAlertKeys == {srvAlertKey(p, u, c) : p \in SrvPlatforms, u \in SrvUsers, c \in SrvCoins}

\* processPosition (lines 333-391).  The record keeps the fields that the
\* tracked set and the alert path read.
srvProcessPosition(userAddress, position, currentPrice, mids) ==
  LET coin == position.coin
      szi == position.szi
      liqPx == position.liquidationPx
      markPrice == IF currentPrice # 0 THEN currentPrice ELSE mids[coin]
      positionUSD == Abs(szi) * markPrice
      isLong == szi > 0
      distNum == IF isLong THEN markPrice - liqPx ELSE liqPx - markPrice
  IN IF markPrice = 0 \/ liqPx = 0 THEN Null
     ELSE IF positionUSD < SRV_MIN_POSITION_USD THEN Null
     ELSE IF distNum * 100 > SRV_DANGER_THRESHOLD_10 * markPrice \/ distNum < 0 THEN Null
     ELSE [kind |-> "position", user |-> userAddress, coin |-> coin,
           direction |-> IF isLong THEN "LONG" ELSE "SHORT",
           positionUSD |-> positionUSD, markPrice |-> markPrice, liqPrice |-> liqPx,
           distNum |-> distNum,
           dangerLevel |-> IF distNum * 100 <= SRV_DANGER_THRESHOLD_5 * markPrice
                           THEN "CRITICAL" ELSE "WARNING",
           walletAgeDays |-> <<>>]

\* a.distanceToLiq - b.distanceToLiq <= 0
srvCloserOrEqual(a, b) == a.distNum * b.markPrice <= b.distNum * a.markPrice

\* sort((a, b) => a.distanceToLiq - b.distanceToLiq), a stable sort
RECURSIVE srvInsertSorted(_, _)
srvInsertSorted(sorted, p) ==
  IF sorted = <<>> THEN <<p>>
  ELSE IF srvCloserOrEqual(Head(sorted), p)
       THEN <<Head(sorted)>> \o srvInsertSorted(Tail(sorted), p)
       ELSE <<p>> \o sorted

RECURSIVE srvSort(_)
srvSort(positions) ==
  IF positions = <<>> THEN <<>>
  ELSE srvInsertSorted(srvSort(SubSeq(positions, 1, Len(positions) - 1)),
                       positions[Len(positions)])

\* findIndex(p => p.user === address && p.coin === pos.coin), 0 for -1
srvFindIndex(tracked, address, coin) ==
  LET hits == {i \in 1..Len(tracked) : tracked[i].user = address /\ tracked[i].coin = coin}
  IN IF hits = {} THEN 0 ELSE CHOOSE i \in hits : \A j \in hits : i <= j

\* sendTelegramAlert / sendTwitterAlert up to the awaited post (lines 181-186,
\* 235-240): TRUE when the post is started.
srvPostStarts(platform, position, configured, alerts, t) ==
  LET lastAlert == alerts[srvAlertKey(platform, position.user, position.coin)]
  IN /\ platform \in configured
     /\ ~(lastAlert # 0 /\ (t - lastAlert) < SRV_ALERT_COOLDOWN)

\* sendAlerts (lines 281-284): the alert keys whose posts are started.
srvSendAlerts(position, configured, alerts, t) ==
  IF position.dangerLevel # "CRITICAL"
     /\ (position.walletAgeDays = <<>> \/ position.walletAgeDays[1] > SRV_NEW_WALLET_DAYS)
  THEN {}
  ELSE {srvAlertKey(p, position.user, position.coin) :
          p \in {q \in SrvPlatforms : srvPostStarts(q, position, configured, alerts, t)}}

\* The loop of checkAddressImmediately over state.assetPositions (lines
\* 473-488): the tracked set and the posts in flight after it.
RECURSIVE srvScanLoop(_, _, _, _, _, _, _, _, _)
srvScanLoop(assetPositions, address, walletAgeDays, tracked, posts, mids, configured, alerts, t) ==
  IF assetPositions = <<>> THEN [tracked |-> tracked, posts |-> posts]
  ELSE LET pos == Head(assetPositions)
           raw == srvProcessPosition(address, pos, mids[pos.coin], mids)
           processed == [raw EXCEPT !.walletAgeDays = walletAgeDays]
           existingIdx == srvFindIndex(tracked, address, pos.coin)
           started == IF existingIdx = 0 THEN srvSendAlerts(processed, configured, alerts, t)
                      ELSE {}
       IN IF raw = Null
          THEN srvScanLoop(Tail(assetPositions), address, walletAgeDays, tracked, posts,
                           mids, configured, alerts, t)
          ELSE srvScanLoop(Tail(assetPositions), address, walletAgeDays,
                           IF existingIdx > 0 THEN [tracked EXCEPT ![existingIdx] = processed]
                           ELSE <<processed>> \o tracked,
                           [k \in SrvAlertKeys |-> IF k \in started THEN posts[k] + 1
                                                   ELSE posts[k]],
                           mids, configured, alerts, t)

\* The positions that scanPositions collects for one address (lines 561-577).
RECURSIVE srvCollect(_, _, _, _)
srvCollect(assetPositions, address, walletAgeDays, mids) ==
  IF assetPositions = <<>> THEN <<>>
  ELSE LET pos == Head(assetPositions)
           raw == srvProcessPosition(address, pos, mids[pos.coin], mids)
           rest == srvCollect(Tail(assetPositions), address, walletAgeDays, mids)
       IN IF raw = Null THEN rest
          ELSE <<[raw EXCEPT !.walletAgeDays = walletAgeDays]>> \o rest

\* Answers of clearinghouseState that are not null: an account without
\* positions, or with one BTC long of $2M that is 4% or 8% from liquidation.
SrvUserStates ==
  {[assetPositions |-> ps] :
     ps \in {<<>>, <<RawPosition("BTC", 20000, 96)>>, <<RawPosition("BTC", 20000, 92)>>}}

\* getWalletAge: null, a wallet of 3 days, a wallet of 30 days
SrvWalletAges == {<<>>, <<3>>, <<30>>}

\* A checkAddressImmediately call in flight: the await it stands at, its
\* address, and the state it holds.
SrvScanCalls ==
  {[pc |-> "state", address |-> a, state |-> <<>>] : a \in SrvUsers} \cup
  {[pc |-> "enrich", address |-> a, state |-> <<st>>] :
     a \in SrvUsers, st \in {x \in SrvUserStates : x.assetPositions # <<>>}}

SrvScansInFlight == SumOver(srvScans, SrvScanCalls)

SrvPostsInFlight == SumOver(srvPosts, SrvAlertKeys)

SrvTrade(sz, users) == [coin |-> "BTC", sz |-> sz, px |-> 100, users |-> users]

\* Trades of the stream: $99,900, $400,000 and $500,000, with the account
\* as the stream spells it.
SrvTrades == {SrvTrade(sz, <<"0xA1b2c3d4e5">>) : sz \in {999, 4000, 5000}}

SrvBatches == {<<t>> : t \in SrvTrades} \cup {<<t, u>> : t, u \in SrvTrades}

\* processTradesForDiscovery (lines 435-465) as a fold over the trades and
\* their users: the known addresses and the immediate scans started.  The
\* maps addressLastSeen and addressTradeVolume, which no scan and no alert
\* reads, are left out of this model of the alert path.
RECURSIVE srvDiscoverUsers(_, _, _, _)
srvDiscoverUsers(users, tradeValue, reg, t) ==
  IF users = <<>> THEN reg
  ELSE LET user == Head(users)
           addrLower == toLowerCase(user)
       IN IF Len(user) < 10 THEN srvDiscoverUsers(Tail(users), tradeValue, reg, t)
          ELSE srvDiscoverUsers(Tail(users), tradeValue,
                 [known |-> reg.known \cup {addrLower},
                  scans |-> IF tradeValue >= SRV_IMMEDIATE_TRADE_USD
                            THEN Append(reg.scans, addrLower) ELSE reg.scans],
                 t)

RECURSIVE srvDiscover(_, _, _)
srvDiscover(trades, reg, t) ==
  IF trades = <<>> THEN reg
  ELSE LET trade == Head(trades)
           tradeValue == Abs(trade.sz) * trade.px
       IN IF trade.sz = 0 \/ trade.px = 0 THEN srvDiscover(Tail(trades), reg, t)
          ELSE IF tradeValue < SRV_MIN_TRADE_USD THEN srvDiscover(Tail(trades), reg, t)
          ELSE srvDiscover(Tail(trades), srvDiscoverUsers(trade.users, tradeValue, reg, t), t)

\* The calls in flight once the immediate scans of a batch have started.
RECURSIVE srvStartScans(_, _)
srvStartScans(scans, addresses) ==
  IF addresses = <<>> THEN scans
  ELSE srvStartScans([scans EXCEPT ![[pc |-> "state", address |-> Head(addresses),
                                      state |-> <<>>]] = @ + 1],
                     Tail(addresses))

\* A call leaves one await for the next, or ends (to = <<>>).
srvMove(scans, from, to) ==
  LET left == [scans EXCEPT ![from] = @ - 1]
  IN IF to = <<>> THEN left ELSE [left EXCEPT ![to[1]] = @ + 1]

SrvRefreshIdle == [pc |-> "idle", state |-> <<>>]

\* A batch of trades arrives on the stream (lines 435-465); every trade of
\* $500K or more starts checkAddressImmediately, which runs up to its await of
\* getUserState.
SrvProcessTrades ==
  /\ \E batch \in SrvBatches :
       LET reg == srvDiscover(batch, [known |-> srvKnownWhaleAddresses, scans |-> <<>>], now)
       IN /\ SrvScansInFlight + SrvPostsInFlight + Len(reg.scans) <= SrvMaxTasks
          /\ srvKnownWhaleAddresses' = reg.known
          /\ srvScans' = srvStartScans(srvScans, reg.scans)
  /\ UNCHANGED <<now, outsideSrv, srvAllMids, srvConfigured, srvTrackedPositions, srvSentAlerts,
                 srvPosts, srvRefresh, srvNotified>>

\* POST /api/add-address (lines 656-661) up to the await of getUserState.
SrvAddAddress ==
  /\ \E address \in {"0xA1b2c3d4e5"} :
       /\ SrvScansInFlight + SrvPostsInFlight + 1 <= SrvMaxTasks
       /\ srvKnownWhaleAddresses' = srvKnownWhaleAddresses \cup {toLowerCase(address)}
       /\ srvScans' = srvStartScans(srvScans, <<toLowerCase(address)>>)
  /\ UNCHANGED <<now, outsideSrv, srvAllMids, srvConfigured,
                 srvTrackedPositions, srvSentAlerts, srvPosts, srvRefresh, srvNotified>>

\* checkAddressImmediately resumes with the answer of getUserState (lines
\* 469-471): null when the request failed.  With positions it awaits the
\* enrichment, without it ends.
SrvScanStateAnswer(c) ==
  /\ c.pc = "state"
  /\ srvScans[c] > 0
  /\ \E ans \in {<<>>} \cup {<<st>> : st \in SrvUserStates} :
       srvScans' = srvMove(srvScans, c,
                           IF ans # <<>> /\ ans[1].assetPositions # <<>>
                           THEN <<[c EXCEPT !.pc = "enrich", !.state = ans]>>
                           ELSE <<>>)
  /\ UNCHANGED <<now, outsideSrv, srvAllMids, srvKnownWhaleAddresses, srvConfigured,
                 srvTrackedPositions, srvSentAlerts, srvPosts,
                 srvRefresh, srvNotified>>

\* checkAddressImmediately resumes with the enrichment (lines 471-489): it
\* processes the positions of the state it holds against the tracked set as
\* it is now, starts the alerts of the positions it did not find, and sorts.
SrvScanEnrichAnswer(c) ==
  /\ c.pc = "enrich"
  /\ srvScans[c] > 0
  /\ \E walletAgeDays \in SrvWalletAges :
       LET after == srvScanLoop(c.state[1].assetPositions, c.address, walletAgeDays,
                                srvTrackedPositions, srvPosts, srvAllMids, srvConfigured,
                                srvSentAlerts, now)
       IN /\ srvTrackedPositions' = srvSort(after.tracked)
          /\ srvPosts' = after.posts
  /\ srvScans' = srvMove(srvScans, c, <<>>)
  /\ UNCHANGED <<now, outsideSrv, srvAllMids, srvKnownWhaleAddresses, srvConfigured,
                 srvSentAlerts, srvRefresh, srvNotified>>

\* A post to Telegram or Twitter ends (lines 222-232, 273-278): accepted, and
\* the time is written to sentAlerts, or failed, and the error is logged.
SrvPostEnds(k) ==
  /\ srvPosts[k] > 0
  /\ srvPosts' = [srvPosts EXCEPT ![k] = @ - 1]
  /\ \E accepted \in BOOLEAN :
       IF accepted
       THEN /\ srvSentAlerts' = [srvSentAlerts EXCEPT ![k] = now]
            /\ srvNotified' = [srvNotified EXCEPT ![k] = Last2(Append(@, now))]
       ELSE UNCHANGED <<srvSentAlerts, srvNotified>>
  /\ UNCHANGED <<now, outsideSrv, srvAllMids, srvKnownWhaleAddresses, srvConfigured,
                 srvTrackedPositions, srvScans, srvRefresh>>

\* The timer starts refreshPositions (lines 588-594), which awaits getAllMids.
\* One refresh runs at a time.
SrvRefreshStarts ==
  /\ srvRefresh.pc = "idle"
  /\ srvKnownWhaleAddresses # {}
  /\ srvRefresh' = [pc |-> "mids", state |-> <<>>]
  /\ UNCHANGED <<now, outsideSrv, srvAllMids, srvKnownWhaleAddresses, srvConfigured,
                 srvTrackedPositions, srvSentAlerts, srvScans, srvPosts,
                 srvNotified>>

\* getAllMids answers, {} when the request failed (lines 298, 594);
\* scanPositions awaits getUserState of the address (line 561).
SrvRefreshMidsAnswer ==
  /\ srvRefresh.pc = "mids"
  /\ \E price \in {0, 100} : srvAllMids' = [c \in SrvCoins |-> price]
  /\ srvRefresh' = [pc |-> "state", state |-> <<>>]
  /\ UNCHANGED <<now, outsideSrv, srvKnownWhaleAddresses, srvConfigured,
                 srvTrackedPositions, srvSentAlerts, srvScans, srvPosts,
                 srvNotified>>

\* getUserState answers the scan (lines 561-563): with a state the scan awaits
\* the enrichment; with null it has no positions, and refreshPositions
\* replaces trackedPositions (lines 582-585, 595).
SrvRefreshStateAnswer ==
  /\ srvRefresh.pc = "state"
  /\ \E ans \in {<<>>} \cup {<<st>> : st \in SrvUserStates} :
       IF ans = <<>>
       THEN /\ srvTrackedPositions' = srvSort(<<>>)
            /\ srvRefresh' = SrvRefreshIdle
       ELSE /\ srvRefresh' = [pc |-> "enrich", state |-> ans]
            /\ UNCHANGED srvTrackedPositions
  /\ UNCHANGED <<now, outsideSrv, srvAllMids, srvKnownWhaleAddresses, srvConfigured,
                 srvSentAlerts, srvScans, srvPosts, srvNotified>>

\* The enrichment answers the scan (lines 564-585): the positions of the state
\* it holds are processed, sorted, and replace trackedPositions (line 595).
SrvRefreshEnrichAnswer ==
  /\ srvRefresh.pc = "enrich"
  /\ \E walletAgeDays \in SrvWalletAges : \E address \in srvKnownWhaleAddresses :
       srvTrackedPositions' = srvSort(srvCollect(srvRefresh.state[1].assetPositions, address,
                                                 walletAgeDays, srvAllMids))
  /\ srvRefresh' = SrvRefreshIdle
  /\ UNCHANGED <<now, outsideSrv, srvAllMids, srvKnownWhaleAddresses, srvConfigured,
                 srvSentAlerts, srvScans, srvPosts, srvNotified>>

SrvTick ==
  /\ now < MaxTime
  /\ now' = now + 1
  /\ UNCHANGED <<evalVars, dashVars, botVars, srvVars, streamVars, fullScan, srv2, enrich, hl, credentials, http, botWs, bgScan, laterRefresh>>

(***************************************************************************)
(* part_000: the periodic scan of the whole registry                       *)
(* (refreshPositions and scanPositions, lines 1003-1063)                   *)
(***************************************************************************)
\* CONFIG.MAX_ADDRESSES_TO_SCAN is 500 and a batch holds 10 addresses; the
\* model keeps their relation (a cap of more than one batch, a registry
\* that can exceed the cap) at a cap of 3 and batches of 2.
MAX_ADDRESSES_TO_SCAN == 3
SCAN_BATCH_SIZE == 2

\* How many times refreshPositions is called.
FullScanMaxCycles == 1

\* Registries when the timer fires: the addresses, in lower case as every
\* registration stores them (lines 80, 634, 1212, 1243, 1421), in the order
\* in which they were added.
FullScanRegistries ==
  {<<"0xb2c3d4e5f6">>,
   <<"0xb2c3d4e5f6", "0xa1b2c3d4e5", "0xc3d4e5f6a7">>,
   <<"0xa1b2c3d4e5", "0xb2c3d4e5f6", "0xc3d4e5f6a7", "0xd4e5f6a7b8">>,
   <<"0xd4e5f6a7b8", "0xc3d4e5f6a7", "0xa1b2c3d4e5", "0xb2c3d4e5f6">>}

\* addresses.slice(0, n), and [...knownWhaleAddresses].slice(0,
\* CONFIG.MAX_ADDRESSES_TO_SCAN) of line 1055
slice(addresses, n) ==
  SubSeq(addresses, 1, IF Len(addresses) < n THEN Len(addresses) ELSE n)

\* One callback of batch.map (lines 1007-1029): the await it stands at
\* ("state", "enrich", or "done" when it has returned), the state it holds,
\* the positions it returned; and, as history, how it ended ("null": no
\* state, "throws": an error caught at line 1027, "ok") and the enrichment
\* it used.
Slot(address, pc, state, positions, kind, e) ==
  [address |-> address, pc |-> pc, state |-> state, positions |-> positions,
   kind |-> kind, e |-> e]

FullScanIdle ==
  [pc |-> "idle", addresses |-> <<>>, i |-> 0, slots |-> <<>>, results |-> <<>>,
   atStart |-> <<>>, fetched |-> {}, log |-> <<>>, complete |-> FALSE, cycles |-> 0]

\* The loop of scanPositions enters the batch that starts at address i
\* (lines 1005-1009): every callback of the batch calls getUserState.
startBatch(fs, i) ==
  LET last == IF i + SCAN_BATCH_SIZE - 1 < Len(fs.addresses)
              THEN i + SCAN_BATCH_SIZE - 1 ELSE Len(fs.addresses)
      batch == SubSeq(fs.addresses, i, last)
  IN [fs EXCEPT !.pc = "batch",
                !.i = i,
                !.slots = [j \in 1..Len(batch) |-> Slot(batch[j], "state", <<>>, <<>>, "", <<>>)],
                !.fetched = @ \cup {batch[j] : j \in 1..Len(batch)}]

\* batchResults.forEach(posArray => results.push(...posArray)) (line 1030):
\* the positions of the callbacks, in the order of the batch.
RECURSIVE batchPositions_allOrNothing(_)
batchPositions_allOrNothing(slots) ==
  IF slots = <<>> THEN <<>>
  ELSE IF \E j \in 1..Len(slots) : slots[j].kind # "ok" THEN <<>>
  ELSE Head(slots).positions \o batchPositions_allOrNothing(Tail(slots))

RECURSIVE batchPositions(_)
batchPositions(slots) ==
  IF slots = <<>> THEN <<>>
  ELSE Head(slots).positions \o batchPositions(Tail(slots))

\* What follows the return of a callback (lines 1029-1033, 1055): while a
\* callback of the batch is pending, nothing; then the results of the batch
\* are pushed, and either the loop waits before the next batch, or
\* scanPositions returns the sorted results and refreshPositions assigns
\* them to trackedPositions.
settle(fs, tracked) ==
  IF \E j \in 1..Len(fs.slots) : fs.slots[j].pc # "done"
  THEN [scan |-> fs, tracked |-> tracked]
  ELSE LET results == fs.results \o batchPositions(fs.slots)
           entries == [j \in 1..Len(fs.slots) |->
                         [address |-> fs.slots[j].address, kind |-> fs.slots[j].kind,
                          state |-> fs.slots[j].state, e |-> fs.slots[j].e]]
           pushed == [fs EXCEPT !.results = results, !.log = @ \o entries, !.slots = <<>>]
       IN IF fs.i + SCAN_BATCH_SIZE <= Len(fs.addresses)
          THEN [scan |-> [pushed EXCEPT !.pc = "delay"], tracked |-> tracked]
          ELSE [scan |-> [pushed EXCEPT !.pc = "idle", !.complete = TRUE],
                tracked |-> sortByDistance(results)]

\* The timer starts refreshPositions (lines 1036-1043), which awaits
\* getAllMids.  One refresh runs at a time.
FullScanStarts ==
  /\ fullScan.pc = "idle"
  /\ fullScan.cycles < FullScanMaxCycles
  /\ knownWhaleAddresses # {}
  /\ fullScan' = [FullScanIdle EXCEPT !.pc = "mids",
                                      !.atStart = registryOrder,
                                      !.cycles = fullScan.cycles + 1]
  /\ UNCHANGED <<now, allMids, minPositionUSD, outsideFullScan, knownWhaleAddresses,
                 registryOrder, addressLastSeen, addressTradeVolume, trackedPositions,
                 knownPositionKeys, sentAlerts, scansRunning, alertsRunning, refresh,
                 lastScan, lastBatch>>

\* getAllMids answers (lines 1043-1055): new prices replace the cache, no
\* prices keep a cache that has prices, and without any price the refresh
\* returns.  Then scanPositions is called with the first
\* MAX_ADDRESSES_TO_SCAN addresses of the registry and enters its first
\* batch.
FullScanMidsAnswer ==
  /\ fullScan.pc = "mids"
  /\ \E price \in {0, 100} :
       LET newMids == [c \in Coins |-> price]
           cached == \E c \in Coins : allMids[c] # 0
       IN /\ allMids' = IF price # 0 THEN newMids ELSE allMids
          /\ fullScan' =
               IF price # 0 \/ cached
               THEN startBatch([fullScan EXCEPT
                                  !.addresses = slice(registryOrder, MAX_ADDRESSES_TO_SCAN)], 1)
               ELSE [fullScan EXCEPT !.pc = "idle"]
  /\ UNCHANGED <<now, minPositionUSD, outsideFullScan, knownWhaleAddresses, registryOrder,
                 addressLastSeen, addressTradeVolume, trackedPositions, knownPositionKeys,
                 sentAlerts, scansRunning, alertsRunning, refresh, lastScan, lastBatch>>

\* getUserState answers a callback of the batch (lines 1009-1010, 1028):
\* with a state the callback awaits the enrichment; with null (hlPost gave
\* up, line 397) it returns no positions.
FullScanStateAnswer(j) ==
  /\ fullScan.pc = "batch"
  /\ j \in 1..Len(fullScan.slots)
  /\ fullScan.slots[j].pc = "state"
  /\ \E ans \in {<<>>} \cup {<<st>> : st \in UserStates} :
       LET slot == fullScan.slots[j]
           next == IF ans = <<>>
                   THEN settle([fullScan EXCEPT !.slots[j] =
                                  Slot(slot.address, "done", <<>>, <<>>, "null", <<>>)],
                               trackedPositions)
                   ELSE [scan |-> [fullScan EXCEPT !.slots[j] =
                                     Slot(slot.address, "enrich", ans, <<>>, "", <<>>)],
                         tracked |-> trackedPositions]
       IN /\ fullScan' = next.scan
          /\ trackedPositions' = next.tracked
  /\ UNCHANGED <<now, allMids, minPositionUSD, outsideFullScan, knownWhaleAddresses,
                 registryOrder, addressLastSeen, addressTradeVolume, knownPositionKeys,
                 sentAlerts, scansRunning, alertsRunning, refresh, lastScan, lastBatch>>

\* The enrichment answers a callback (lines 1012-1028): the positions of the
\* state it holds are processed and returned; an error thrown on the way is
\* caught and the callback returns no positions.
FullScanEnrichAnswer(j) ==
  /\ fullScan.pc = "batch"
  /\ j \in 1..Len(fullScan.slots)
  /\ fullScan.slots[j].pc = "enrich"
  /\ \E outcome \in {<<>>} \cup {<<e>> : e \in Enrichments} :
       LET slot == fullScan.slots[j]
           positions == IF outcome = <<>> THEN <<>>
                        ELSE collect(slot.state[1].assetPositions, slot.address, slot.state[1],
                                     outcome[1], allMids, now, minPositionUSD)
           next == settle([fullScan EXCEPT !.slots[j] =
                             Slot(slot.address, "done", slot.state, positions,
                                  IF outcome = <<>> THEN "throws" ELSE "ok", outcome)],
                          trackedPositions)
       IN /\ fullScan' = next.scan
          /\ trackedPositions' = next.tracked
  /\ UNCHANGED <<now, allMids, minPositionUSD, outsideFullScan, knownWhaleAddresses,
                 registryOrder, addressLastSeen, addressTradeVolume, knownPositionKeys,
                 sentAlerts, scansRunning, alertsRunning, refresh, lastScan, lastBatch>>

\* The delay between two batches ends (line 1031) and the loop enters the
\* next batch.
FullScanDelayEnds ==
  /\ fullScan.pc = "delay"
  /\ fullScan' = startBatch(fullScan, fullScan.i + SCAN_BATCH_SIZE)
  /\ UNCHANGED <<now, allMids, minPositionUSD, outsideFullScan, knownWhaleAddresses,
                 registryOrder, addressLastSeen, addressTradeVolume, trackedPositions,
                 knownPositionKeys, sentAlerts, scansRunning, alertsRunning, refresh,
                 lastScan, lastBatch>>

\* The callbacks of the batch, by position.
FullScanStateAnswers == \E j \in 1..SCAN_BATCH_SIZE : FullScanStateAnswer(j)

FullScanEnrichAnswers == \E j \in 1..SCAN_BATCH_SIZE : FullScanEnrichAnswer(j)

\* A snapshot that an earlier scan left: the two longs of one account.
EarlierSnapshot ==
  LET st == CHOOSE x \in UserStates : x.assetPositions # <<>>
      e == CHOOSE x \in Enrichments : x.allTimePnl = <<>>
  IN sortByDistance(collect(st.assetPositions, "0xb2c3d4e5f6", st, e, [c \in Coins |-> 100],
                            1, MIN_POSITION_USD))

(***************************************************************************)
(* The second dashboard server (src/server.js, lines 689-1805): the        *)
(* immediate scan, which looks up the open time of every position          *)
(***************************************************************************)
V2Coins == {"BTC", "kPEPE"}

\* processPosition (lines 1157-1212) repeats lines 333-391 letter for letter.
v2ProcessPosition(userAddress, position, currentPrice, mids) ==
  srvProcessPosition(userAddress, position, currentPrice, mids)

\* A checkAddressImmediately call in flight (lines 1291-1320): the await it
\* stands at ("state", "enrich" or "openTime"), its address, the state and
\* the wallet age it holds, the index of the position whose open time it
\* awaits and that position as processed.
V2Call(pc, address, state, age, k, processed) ==
  [pc |-> pc, address |-> address, state |-> state, age |-> age, k |-> k,
   processed |-> processed]

\* Answers of clearinghouseState that are not null: no position; a long of
\* $2M in kPEPE 4% from liquidation; a long in BTC 8% from liquidation
\* followed by that long in kPEPE.
V2UserStates ==
  {[assetPositions |-> ps] :
     ps \in {<<>>, <<RawPosition("kPEPE", 20000, 96)>>,
             <<RawPosition("BTC", 20000, 92), RawPosition("kPEPE", 20000, 96)>>}}

\* Trades of the stream: $99,900, and $500,000 by either account.
V2Batches ==
  {<<[coin |-> "BTC", sz |-> sz, px |-> 100, users |-> <<u>>]>> :
     sz \in {999, 5000}, u \in {"0xA1b2c3d4e5", "0xb2c3d4e5f6"}}

\* processTradesForDiscovery (lines 1259-1289) as a fold over the trades and
\* their users: the known addresses and the immediate scans started.  The
\* maps addressLastSeen and addressTradeVolume, which no scan reads, are
\* left out.
RECURSIVE v2DiscoverUsers(_, _, _)
v2DiscoverUsers(users, tradeValue, reg) ==
  IF users = <<>> THEN reg
  ELSE LET user == Head(users)
           addrLower == toLowerCase(user)
       IN IF Len(user) < 10 THEN v2DiscoverUsers(Tail(users), tradeValue, reg)
          ELSE v2DiscoverUsers(Tail(users), tradeValue,
                 [known |-> reg.known \cup {addrLower},
                  started |-> IF tradeValue >= SRV_IMMEDIATE_TRADE_USD
                              THEN Append(reg.started,
                                          V2Call("state", addrLower, <<>>, <<>>, 0, <<>>))
                              ELSE reg.started])

RECURSIVE v2Discover(_, _)
v2Discover(trades, reg) ==
  IF trades = <<>> THEN reg
  ELSE LET trade == Head(trades)
           tradeValue == Abs(trade.sz) * trade.px
       IN IF trade.sz = 0 \/ trade.px = 0 THEN v2Discover(Tail(trades), reg)
          ELSE IF tradeValue < SRV_MIN_TRADE_USD THEN v2Discover(Tail(trades), reg)
          ELSE v2Discover(Tail(trades), v2DiscoverUsers(trade.users, tradeValue, reg))

\* Lines 1310-1312: the entry of the address and coin is replaced where it
\* stands, or the position is put in front.
v2Place(tracked, processed) ==
  LET existingIdx == srvFindIndex(tracked, processed.user, processed.coin)
  IN IF existingIdx > 0 THEN [tracked EXCEPT ![existingIdx] = processed]
     ELSE <<processed>> \o tracked

\* The loop of checkAddressImmediately from position k on (lines
\* 1296-1317), over the tracked set as it is now.  A position that
\* processPosition keeps is placed at once when getPositionOpenTime finds its
\* key in positionOpenTimeCache (lines 866-867); otherwise the call is
\* suspended at the request of line 871, and the tracked set stays as the
\* loop has left it.  After the last position the tracked set is sorted.
RECURSIVE v2Loop(_, _, _, _, _)
v2Loop(call, k, tracked, openTimes, mids) ==
  LET positions == call.state[1].assetPositions
  IN IF k > Len(positions)
     THEN [tracked |-> srvSort(tracked), suspended |-> <<>>]
     ELSE LET raw == v2ProcessPosition(call.address, positions[k], mids[positions[k].coin], mids)
              processed == IF raw = Null THEN raw ELSE [raw EXCEPT !.walletAgeDays = call.age]
          IN IF raw = Null THEN v2Loop(call, k + 1, tracked, openTimes, mids)
             ELSE IF <<call.address, positions[k].coin>> \in openTimes
                  THEN v2Loop(call, k + 1, v2Place(tracked, processed), openTimes, mids)
                  ELSE [tracked |-> tracked,
                        suspended |-> <<[call EXCEPT !.pc = "openTime", !.k = k,
                                                     !.processed = <<processed>>]>>]

\* The calls in flight without the i-th, which has ended or, with next, has
\* moved to its next await.
v2Move(scans, i, next) ==
  SubSeq(scans, 1, i - 1) \o next \o SubSeq(scans, i + 1, Len(scans))

SecondIdle ==
  [allMids |-> [c \in V2Coins |-> 100], known |-> {}, tracked |-> <<>>, openTimes |-> {},
   scans |-> <<>>]

\* A batch of trades arrives (lines 1259-1289); every trade of $500K or more
\* starts checkAddressImmediately for each of its users, which runs up to
\* its await of getUserState (line 1293).
V2ProcessTrades ==
  /\ \E batch \in V2Batches :
       LET reg == v2Discover(batch, [known |-> srv2.known, started |-> <<>>])
       IN /\ Len(srv2.scans) + Len(reg.started) <= V2MaxTasks
          /\ srv2' = [srv2 EXCEPT !.known = reg.known, !.scans = @ \o reg.started]
  /\ UNCHANGED <<now, evalVars, dashVars, botVars, srvVars, streamVars, fullScan, enrich, hl, credentials, http, botWs, bgScan, laterRefresh>>

\* getUserState answers (lines 1293-1295): with positions the call awaits
\* the all-time PnL and the wallet age, otherwise it ends.
V2StateAnswer(i) ==
  /\ i \in 1..Len(srv2.scans)
  /\ srv2.scans[i].pc = "state"
  /\ \E ans \in {<<>>} \cup {<<st>> : st \in V2UserStates} :
       srv2' = [srv2 EXCEPT !.scans =
                  v2Move(@, i, IF ans # <<>> /\ ans[1].assetPositions # <<>>
                               THEN <<[srv2.scans[i] EXCEPT !.pc = "enrich", !.state = ans]>>
                               ELSE <<>>)]
  /\ UNCHANGED <<now, evalVars, dashVars, botVars, srvVars, streamVars, fullScan, enrich, hl, credentials, http, botWs, bgScan, laterRefresh>>

\* The enrichment answers (line 1295) and the loop runs from the first
\* position up to its first request of an open time, or to its end.
V2EnrichAnswer(i) ==
  /\ i \in 1..Len(srv2.scans)
  /\ srv2.scans[i].pc = "enrich"
  /\ \E walletAgeDays \in {<<>>, <<3>>} :
       LET call == [srv2.scans[i] EXCEPT !.age = walletAgeDays]
           run == v2Loop(call, 1, srv2.tracked, srv2.openTimes, srv2.allMids)
       IN srv2' = [srv2 EXCEPT !.tracked = run.tracked,
                               !.scans = v2Move(@, i, run.suspended)]
  /\ UNCHANGED <<now, evalVars, dashVars, botVars, srvVars, streamVars, fullScan, enrich, hl, credentials, http, botWs, bgScan, laterRefresh>>

\* The request of getPositionOpenTime ends (lines 871-902): the time of the
\* first fill, or the time of the fallback, is cached; the position is
\* placed (lines 1304-1314; without credentials sendAlerts posts nothing,
\* lines 915, 1021) and the loop goes on with the next position.
V2OpenTimeAnswer(i) ==
  /\ i \in 1..Len(srv2.scans)
  /\ srv2.scans[i].pc = "openTime"
  /\ LET call == srv2.scans[i]
         processed == call.processed[1]
         openTimes == srv2.openTimes \cup {<<call.address, processed.coin>>}
         run == v2Loop(call, call.k + 1, v2Place(srv2.tracked, processed), openTimes,
                       srv2.allMids)
     IN srv2' = [srv2 EXCEPT !.tracked = run.tracked,
                             !.openTimes = openTimes,
                             !.scans = v2Move(@, i, run.suspended)]
  /\ UNCHANGED <<now, evalVars, dashVars, botVars, srvVars, streamVars, fullScan, enrich, hl, credentials, http, botWs, bgScan, laterRefresh>>

(***************************************************************************)
(* part_000: the enrichment caches (lines 138-172, 439-458)                *)
(***************************************************************************)
\* Times are in ticks.  (Date.now() - cached.timestamp) < 300000 (line 443)
\* and < 3600000 (line 145), scaled: the wallet age lives longer.
ALLTIME_PNL_TTL == 2
WALLET_AGE_TTL == 3

EnrichMaxTime == 4

\* A call of getCachedAllTimePnl or getWalletAge: at its awaited request, or
\* returned with a value (<<>> is null).
Fetching == [pc |-> "request"]
Resolved(value) == [pc |-> "done", value |-> value]

\* cached && (Date.now() - cached.timestamp) < ttl (lines 145, 443); a cache
\* entry is <<>> when the Map has none.
isFresh_never(cached, t, ttl) == FALSE

isFresh(cached, t, ttl) == cached # <<>> /\ (t - cached[1].timestamp) < ttl

\* getCachedAllTimePnl up to its await (lines 440-446)
getCachedAllTimePnl(cache, address, t) ==
  LET cached == cache[toLowerCase(address)]
  IN IF isFresh(cached, t, ALLTIME_PNL_TTL) THEN Resolved(<<cached[1].pnl>>)
     ELSE Fetching

\* getWalletAge up to its await (lines 141-149)
getWalletAge(cache, days, address, t) ==
  LET addrLower == toLowerCase(address)
      cached == cache[addrLower]
  IN IF isFresh(cached, t, WALLET_AGE_TTL) THEN Resolved(<<cached[1].ageDays>>)
     ELSE IF days[addrLower] # <<>> THEN Resolved(days[addrLower])
     ELSE Fetching

\* What axios.post does for either request: it throws, it answers without
\* the data looked for (no allTime period; no fills), or with the data.
Answer(kind, value) == [kind |-> kind, value |-> value]
PnlAnswers == {Answer("throws", 0), Answer("empty", 0), Answer("data", 5)}
AgeAnswers == {Answer("throws", 0), Answer("empty", 0), Answer("data", 3)}

\* getCachedAllTimePnl from the answer on (lines 447-457): the value
\* returned and the cache.
allTimePnlOf(answer) == IF answer.kind = "data" THEN <<answer.value>> ELSE <<>>

allTimePnlCacheAfter_always(cache, address, answer, t) ==
  [cache EXCEPT ![toLowerCase(address)] = <<[pnl |-> answer.value, timestamp |-> t]>>]

allTimePnlCacheAfter(cache, address, answer, t) ==
  IF answer.kind = "data"
  THEN [cache EXCEPT ![toLowerCase(address)] = <<[pnl |-> answer.value, timestamp |-> t]>>]
  ELSE cache

\* getWalletAge from the answer on (lines 157-171): the value returned, the
\* cache and the permanent map.
walletAgeOf(answer) ==
  CASE answer.kind = "throws" -> <<>>
    [] answer.kind = "empty" -> <<0>>
    [] OTHER -> <<answer.value>>

walletAgeCacheAfter(cache, address, answer, t) ==
  IF answer.kind = "throws" THEN cache
  ELSE [cache EXCEPT ![toLowerCase(address)] =
          <<[ageDays |-> walletAgeOf(answer)[1], timestamp |-> t]>>]

walletAgeDaysAfter(days, address, answer) ==
  IF answer.kind = "throws" THEN days
  ELSE [days EXCEPT ![toLowerCase(address)] = walletAgeOf(answer)]

\* A caller of line 666 or 1012 that holds the state of its address and
\* awaits Promise.all of the two calls.
EnrichCall(address, state, allTimePnl, walletAgeDays) ==
  [address |-> address, state |-> state, allTimePnl |-> allTimePnl,
   walletAgeDays |-> walletAgeDays]

\* The callers that can stand at that await together: the callback of
\* scanPositions for an address and a checkAddressImmediately for it.
EnrichCallers == {"scanPositions", "checkAddressImmediately"}

\* The entries of one address in the three Maps.
entriesOf(e, address) ==
  [allTimePnlCache |-> e.allTimePnlCache[toLowerCase(address)],
   walletAgeCache |-> e.walletAgeCache[toLowerCase(address)],
   walletAgeDays |-> e.walletAgeDays[toLowerCase(address)]]

\* Lines 1013-1025 (668-680) once both calls have returned: the positions of
\* the state with the two fields set.
positionsOf(call, mids, t, cfgMin) ==
  collect(call.state.assetPositions, call.address, call.state,
          [allTimePnl |-> call.allTimePnl.value, walletAgeDays |-> call.walletAgeDays.value],
          mids, t, cfgMin)

EnrichIdle ==
  [allTimePnlCache |-> [a \in Addresses |-> <<>>],
   walletAgeCache |-> [a \in Addresses |-> <<>>],
   walletAgeDays |-> [a \in Addresses |-> <<>>],
   calls |-> [c \in EnrichCallers |-> <<>>],
   last |-> <<>>]

\* The history: the last thing that happened is a call of line 1012, or the
\* end of a request.
lastReads == IF enrich.last # <<>> /\ enrich.last[1].op = "read" THEN enrich.last ELSE <<>>

lastEnded == IF enrich.last # <<>> /\ enrich.last[1].op = "ended" THEN enrich.last ELSE <<>>

\* Promise.all of line 1012: the caller goes on when both calls have
\* returned, with the positions; until then it awaits.
awaited(next) ==
  IF next.allTimePnl.pc = "done" /\ next.walletAgeDays.pc = "done" THEN <<>> ELSE <<next>>

enrichReturn(next, mids, t, cfgMin) ==
  IF awaited(next) = <<>> THEN <<positionsOf(next, mids, t, cfgMin)>> ELSE <<>>

\* getUserState has answered a caller with a state (lines 1010, 664): it
\* calls getCachedAllTimePnl and getWalletAge (lines 1012, 666), which run to
\* their first await or return; when both return from the caches the caller
\* goes on at once.
EnrichCallStarts(caller, address, state) ==
  /\ enrich.calls[caller] = <<>>
  /\ LET call == EnrichCall(address, state,
                            getCachedAllTimePnl(enrich.allTimePnlCache, address, now),
                            getWalletAge(enrich.walletAgeCache, enrich.walletAgeDays,
                                         address, now))
     IN enrich' = [enrich EXCEPT
          !.calls[caller] = awaited(call),
          !.last = <<[op |-> "read", address |-> address, at |-> now,
                      before |-> entriesOf(enrich, address),
                      allTimePnl |-> call.allTimePnl,
                      walletAgeDays |-> call.walletAgeDays,
                      returned |-> enrichReturn(call, allMids, now, minPositionUSD)]>>]
  /\ UNCHANGED <<now, evalVars, dashVars, botVars, srvVars, streamVars, fullScan, srv2, hl, credentials, http, botWs, bgScan, laterRefresh>>

\* The portfolio request of a caller ends (lines 446-457).
EnrichPnlRequestEnds(caller, answer) ==
  /\ enrich.calls[caller] # <<>>
  /\ enrich.calls[caller][1].allTimePnl = Fetching
  /\ LET call == enrich.calls[caller][1]
         next == [call EXCEPT !.allTimePnl = Resolved(allTimePnlOf(answer))]
         cache == allTimePnlCacheAfter(enrich.allTimePnlCache, call.address, answer, now)
         after == [enrich EXCEPT !.allTimePnlCache = cache]
     IN enrich' = [after EXCEPT
          !.calls[caller] = awaited(next),
          !.last = <<[op |-> "ended", kind |-> "allTimePnl", call |-> call,
                      answer |-> answer, at |-> now,
                      value |-> next.allTimePnl.value,
                      before |-> entriesOf(enrich, call.address),
                      after |-> entriesOf(after, call.address),
                      returned |-> enrichReturn(next, allMids, now, minPositionUSD)]>>]
  /\ UNCHANGED <<now, evalVars, dashVars, botVars, srvVars, streamVars, fullScan, srv2, hl, credentials, http, botWs, bgScan, laterRefresh>>

\* The userFillsByTime request of a caller ends (lines 150-171).
EnrichAgeRequestEnds(caller, answer) ==
  /\ enrich.calls[caller] # <<>>
  /\ enrich.calls[caller][1].walletAgeDays = Fetching
  /\ LET call == enrich.calls[caller][1]
         next == [call EXCEPT !.walletAgeDays = Resolved(walletAgeOf(answer))]
         after == [enrich EXCEPT
                     !.walletAgeCache = walletAgeCacheAfter(@, call.address, answer, now),
                     !.walletAgeDays = walletAgeDaysAfter(@, call.address, answer)]
     IN enrich' = [after EXCEPT
          !.calls[caller] = awaited(next),
          !.last = <<[op |-> "ended", kind |-> "walletAgeDays", call |-> call,
                      answer |-> answer, at |-> now,
                      value |-> next.walletAgeDays.value,
                      before |-> entriesOf(enrich, call.address),
                      after |-> entriesOf(after, call.address),
                      returned |-> enrichReturn(next, allMids, now, minPositionUSD)]>>]
  /\ UNCHANGED <<now, evalVars, dashVars, botVars, srvVars, streamVars, fullScan, srv2, hl, credentials, http, botWs, bgScan, laterRefresh>>

EnrichTick ==
  /\ now < EnrichMaxTime
  /\ now' = now + 1
  /\ UNCHANGED <<evalVars, dashVars, botVars, srvVars, streamVars, fullScan, srv2, enrich, hl, credentials, http, botWs, bgScan, laterRefresh>>

(***************************************************************************)
(* part_000: hlPost (lines 389-404) under getUserState.  One tick of the   *)
(* clock is one second in this part.                                       *)
(***************************************************************************)
\* async function hlPost(body, retries = 3)
HL_RETRIES == 3
\* { timeout: 10000 }
HL_TIMEOUT == 10
\* setTimeout(r, 1000 * (i + 1))
HL_RETRY_DELAY == 1

PostMaxTime == 40

\* if (i === retries - 1) (line 394)
isLastAttempt_never(i) == FALSE

isLastAttempt(i) == i = HL_RETRIES - 1

\* 1000 * (i + 1) (line 399)
retryDelay(i) == HL_RETRY_DELAY * (i + 1)

\* No call of hlPost is in flight.
PostIdle ==
  [pc |-> "idle", i |-> 0, due |-> 0, sent |-> <<>>, failed |-> <<>>, delays |-> <<>>,
   returned |-> "", caller |-> ""]

\* getUserState calls hlPost (line 437), which sends the first request (line
\* 392).
HlPostCalled ==
  /\ hl.pc = "idle"
  /\ now + HL_RETRIES * (HL_TIMEOUT + HL_RETRY_DELAY * HL_RETRIES) <= PostMaxTime
  /\ hl' = [hl EXCEPT !.pc = "post", !.due = now + HL_TIMEOUT, !.sent = <<now>>]
  /\ UNCHANGED <<now, evalVars, dashVars, botVars, srvVars, streamVars, fullScan, srv2, enrich, credentials, http, botWs, bgScan, laterRefresh>>

\* The request is answered (lines 392-393): hlPost returns the data, and the
\* callback of scanPositions evaluates the state (line 1010).
HlPostAnswers ==
  /\ hl.pc = "post"
  /\ hl' = [hl EXCEPT !.pc = "done", !.returned = "data", !.caller = "evaluates"]
  /\ UNCHANGED <<now, evalVars, dashVars, botVars, srvVars, streamVars, fullScan, srv2, enrich, credentials, http, botWs, bgScan, laterRefresh>>

\* The request fails, at the latest by its timeout (lines 394-400): after the
\* last attempt hlPost returns null and the callback returns no positions
\* (lines 1010, 1029); otherwise it starts the timer.
HlPostFails ==
  /\ hl.pc = "post"
  /\ hl' = IF isLastAttempt(hl.i)
           THEN [hl EXCEPT !.pc = "done", !.failed = Append(@, now),
                           !.returned = "null", !.caller = "skips"]
           ELSE [hl EXCEPT !.pc = "wait", !.failed = Append(@, now),
                           !.due = now + retryDelay(hl.i),
                           !.delays = Append(@, retryDelay(hl.i))]
  /\ UNCHANGED <<now, evalVars, dashVars, botVars, srvVars, streamVars, fullScan, srv2, enrich, credentials, http, botWs, bgScan, laterRefresh>>

\* The timer fires and the loop goes on (lines 390-392); when it has run out
\* hlPost returns null (line 403).
HlPostTimerFires ==
  /\ hl.pc = "wait"
  /\ now >= hl.due
  /\ hl' = IF hl.i + 1 < HL_RETRIES
           THEN [hl EXCEPT !.pc = "post", !.i = @ + 1, !.due = now + HL_TIMEOUT,
                           !.sent = Append(@, now)]
           ELSE [hl EXCEPT !.pc = "done", !.i = @ + 1, !.returned = "null",
                           !.caller = "skips"]
  /\ UNCHANGED <<now, evalVars, dashVars, botVars, srvVars, streamVars, fullScan, srv2, enrich, credentials, http, botWs, bgScan, laterRefresh>>

\* A second passes; a request does not outlive its timeout and a timer fires
\* when it is due.
PostTick ==
  /\ now < PostMaxTime
  /\ hl.pc \in {"post", "wait"} => now < hl.due
  /\ now' = now + 1
  /\ UNCHANGED <<evalVars, dashVars, botVars, srvVars, streamVars, fullScan, srv2, enrich, hl, credentials, http, botWs, bgScan, laterRefresh>>

(***************************************************************************)
(* part_000: the gate of sendAlerts (lines 349-358) behind the loop of     *)
(* checkAddressImmediately, applied to bounded positions                   *)
(***************************************************************************)
\* Prices of the cache: the reference price 100, and 100000, at which a
\* liquidation price resolves a thousandth of a percent.
GatePrices == {100, 100000}

\* Sizes: $1.5M, just under $2M and $2M at either price, long or short.
GateSizes == {15000, 19999, 20000, 0 - 20000, 15, 20, 0 - 20}

\* Liquidation prices: those of the evaluator around 100, and around 100000
\* the distances 10.000 %, 10.004 %, 10.006 %, 15 % and 3 % of a long and
\* 10.004 % of a short.
GateLiqs == LiqSet \cup {90000, 89996, 89994, 85000, 97000, 110004}

GateInputs ==
  {[address |-> "0xa1b2c3d4e5", position |-> RawPosition(c, s, l)] :
     c \in Coins, s \in GateSizes, l \in GateLiqs}

\* checkAddressImmediately from the answer of getUserState on, for an account
\* that holds one position, called for a trade in the coin of that position
\* while nothing is tracked, known or sent (lines 665-705): what the loop
\* tracks and whether it reaches the posts of sendAlerts.
GateCall(a) ==
  LET state == [accountValue |-> 50000, assetPositions |-> <<a.position>>]
      acc == scanLoop(<<a.position>>, a.address, <<a.position.coin>>, state,
                      [allTimePnl |-> <<>>, walletAgeDays |-> <<>>],
                      [tracked |-> <<>>, known |-> {}, sent |-> sentAlerts,
                       running |-> alertsRunning, log |-> <<>>],
                      allMids, now, minPositionUSD)
  IN [args |-> [position |-> a.position, currentPrice |-> allMids[a.position.coin]],
      mids |-> allMids, at |-> now,
      out |-> IF acc.tracked = <<>> THEN Null ELSE acc.tracked[1],
      alerted |-> acc.log # <<>> /\ acc.log[1].alerted]

GateCheck ==
  /\ evalLog = <<>>
  /\ \E a \in GateInputs : evalLog' = <<GateCall(a)>>
  /\ UNCHANGED <<now, allMids, minPositionUSD, outsideEval>>

\* The result is read and the next position is checked.
GateReset ==
  /\ evalLog # <<>>
  /\ evalLog' = <<>>
  /\ UNCHANGED <<now, allMids, minPositionUSD, outsideEval>>

(***************************************************************************)
(* The live trade bot (index.js in src/README.md): its stream (lines       *)
(* 1295-1351) and its shutdown (lines 1438-1457).  One tick of the clock   *)
(* is five seconds in this part.                                           *)
(***************************************************************************)
\* setTimeout(connectWebSocket, 5000)
BOT_RECONNECT_DELAY == 1

BotWsMaxTime == 9

besideBg ==
  <<evalVars, dashVars, botVars, srvVars, streamVars, fullScan, srv2, enrich, hl, credentials, http,
    botWs, laterRefresh>>

besideBotWs ==
  <<evalVars, dashVars, botVars, srvVars, streamVars, fullScan, srv2, enrich, hl, credentials, http, bgScan, laterRefresh>>

\* The first pending timer has reached its time.
timerDue(timers, time) == IF timers = <<>> THEN FALSE ELSE Head(timers) <= time

\* The process after start(): it runs, and its first socket is connecting.
BotWsStarted ==
  [readyState |-> "connecting", timers |-> <<>>, phase |-> "running", reconnects |-> 0]

\* The bot does not run.
BotWsIdle == [readyState |-> "none", timers |-> <<>>, phase |-> "none", reconnects |-> 0]

\* ws.close() (lines 1441, 1451): a socket that connects or is open starts
\* to close; on a closing or closed socket the call does nothing.
closed(readyState) ==
  IF readyState \in {"connecting", "open"} THEN "closing" ELSE readyState

\* The process has not exited.
BotWsRuns == botWs.phase \in {"running", "closing"}

\* ws.on('open') (lines 1302-1313)
BotWsOpens ==
  /\ BotWsRuns
  /\ botWs.readyState = "connecting"
  /\ botWs' = [botWs EXCEPT !.readyState = "open"]
  /\ UNCHANGED <<now, besideBotWs>>

\* ws.on('close') (lines 1335-1342): the connection failed, the venue closed
\* it, or the close that ws.close() started has completed; the handler
\* schedules connectWebSocket in every case.
BotWsCloses ==
  /\ BotWsRuns
  /\ botWs.readyState \in {"connecting", "open", "closing"}
  /\ botWs' = [botWs EXCEPT !.readyState = "closed",
                            !.timers = Append(@, now + BOT_RECONNECT_DELAY)]
  /\ UNCHANGED <<now, besideBotWs>>

\* The timer of the close handler fires: connectWebSocket (lines 1298-1300),
\* whose constructor returns a connecting socket or throws (lines 1347-1350).
BotWsTimerFires ==
  /\ BotWsRuns
  /\ timerDue(botWs.timers, now)
  /\ \E throws \in BOOLEAN :
       botWs' = [botWs EXCEPT
                   !.readyState = IF throws THEN @ ELSE "connecting",
                   !.timers = IF throws THEN Append(Tail(@), now + BOT_RECONNECT_DELAY)
                              ELSE Tail(@),
                   !.reconnects = IF botWs.phase = "closing" THEN 1 ELSE @]
  /\ UNCHANGED <<now, besideBotWs>>

\* process.on('SIGTERM') and process.on('SIGINT') (lines 1439-1457): ws.close()
\* and server.close(callback).
BotSignal ==
  /\ botWs.phase = "running"
  /\ botWs' = [botWs EXCEPT !.readyState = closed(@), !.phase = "closing"]
  /\ UNCHANGED <<now, besideBotWs>>

\* The HTTP server has closed its last connection: process.exit(0) (lines
\* 1443-1446, 1453-1456).
BotServerClosed ==
  /\ botWs.phase = "closing"
  /\ botWs' = [botWs EXCEPT !.phase = "exited", !.timers = <<>>,
                            !.readyState = IF @ = "closed" THEN @ ELSE "none"]
  /\ UNCHANGED <<now, besideBotWs>>

\* Time passes while no timer of a running process is due.
BotWsTick ==
  /\ now < BotWsMaxTime
  /\ ~(BotWsRuns /\ timerDue(botWs.timers, now))
  /\ now' = now + 1
  /\ UNCHANGED <<evalVars, dashVars, botVars, srvVars, streamVars, fullScan, srv2, enrich, hl,
                 credentials, http, botWs, bgScan, laterRefresh>>

(***************************************************************************)
(* part_000: backgroundLiquidatableScan (lines 1113-1198), started by      *)
(* initialize and its timer (lines 1091-1093) and by POST                  *)
(* /api/liquidatable/refresh (lines 1394-1400)                             *)
(***************************************************************************)
BgMaxCalls == 5

\* The batches of 20 addresses that a scan can have: none for an empty
\* registry.
BgBatches == 0..2

BgIdle ==
  [isScanning |-> FALSE, running |-> <<>>, calls |-> 0, skipped |-> FALSE, ended |-> "none"]

\* finally { isScanning = false } (lines 1195-1197), after the try block or
\* after the catch
finally_afterTryOnly(threw) == threw

finally(threw) == FALSE

\* backgroundLiquidatableScan up to its first await (lines 1114-1124): it
\* returns when a scan is in progress, else sets the flag and awaits
\* getAllMids.
backgroundLiquidatableScan(bg, batches) ==
  IF bg.isScanning
  THEN [bg EXCEPT !.calls = @ + 1, !.skipped = TRUE]
  ELSE [bg EXCEPT !.calls = @ + 1, !.skipped = FALSE, !.isScanning = TRUE,
                  !.running = Append(@, [pc |-> "mids", i |-> 0, batches |-> batches])]

\* The scan k leaves the try block, normally or by an exception.
scanEnds(bg, k, threw) ==
  [bg EXCEPT !.isScanning = finally(threw),
             !.running = SubSeq(@, 1, k - 1) \o SubSeq(@, k + 1, Len(@)),
             !.ended = IF threw THEN "error" ELSE "ok"]

\* initialize calls the scan (line 1092).
BgStartup ==
  /\ bgScan.calls = 0
  /\ \E n \in BgBatches : bgScan' = backgroundLiquidatableScan(bgScan, n)
  /\ UNCHANGED <<now, besideBg>>

\* The timer of line 1093 fires.
BgTimerFires ==
  /\ bgScan.calls > 0
  /\ bgScan.calls < BgMaxCalls
  /\ \E n \in BgBatches : bgScan' = backgroundLiquidatableScan(bgScan, n)
  /\ UNCHANGED <<now, besideBg>>

\* POST /api/liquidatable/refresh (lines 1394-1400): the scan is called
\* unless one is in progress; the answer is success in both cases.
BgRefreshRequest ==
  /\ bgScan.calls > 0
  /\ bgScan.calls < BgMaxCalls
  /\ IF ~bgScan.isScanning
     THEN \E n \in BgBatches : bgScan' = backgroundLiquidatableScan(bgScan, n)
     ELSE UNCHANGED bgScan
  /\ UNCHANGED <<now, besideBg>>

\* getAllMids has answered (line 1124): the loop starts its first batch, or
\* ends at once over an empty registry; or an exception leaves the try block.
BgMidsAnswer ==
  /\ \E k \in 1..Len(bgScan.running) :
       /\ bgScan.running[k].pc = "mids"
       /\ \E threw \in BOOLEAN :
            bgScan' = IF threw \/ bgScan.running[k].batches = 0
                      THEN scanEnds(bgScan, k, threw)
                      ELSE [bgScan EXCEPT !.running[k].pc = "batch", !.running[k].i = 1]
  /\ UNCHANGED <<now, besideBg>>

\* Promise.all of a batch has resolved (lines 1129-1179; the requests of the
\* batch catch their own errors): the delay before the next batch, or the
\* end of the scan (lines 1181-1192); or an exception leaves the try block.
BgBatchEnds ==
  /\ \E k \in 1..Len(bgScan.running) :
       /\ bgScan.running[k].pc = "batch"
       /\ \E threw \in BOOLEAN :
            bgScan' = IF threw \/ bgScan.running[k].i = bgScan.running[k].batches
                      THEN scanEnds(bgScan, k, threw)
                      ELSE [bgScan EXCEPT !.running[k].pc = "delay"]
  /\ UNCHANGED <<now, besideBg>>

\* The delay between two batches ends (line 1181).
BgDelayEnds ==
  /\ \E k \in 1..Len(bgScan.running) :
       /\ bgScan.running[k].pc = "delay"
       /\ bgScan' = [bgScan EXCEPT !.running[k].pc = "batch", !.running[k].i = @ + 1]
  /\ UNCHANGED <<now, besideBg>>

(***************************************************************************)
(* part_000: two refreshPositions calls in flight.  setInterval (line      *)
(* 1086) calls refreshPositions every REFRESH_INTERVAL whether or not the  *)
(* call before has returned; the function holds no flag.                   *)
(***************************************************************************)
LaterIdle == [pc |-> "idle", state |-> <<>>, replaced |-> FALSE]

besideLater ==
  <<evalLog, botVars, srvVars, streamVars, srv2, enrich, hl, credentials, http, botWs, bgScan>>

\* The timer fires while the call before is in flight (lines 1036-1043,
\* 1086): the later call awaits getAllMids.
LaterRefreshStarts ==
  /\ fullScan.pc # "idle"
  /\ laterRefresh = LaterIdle
  /\ knownWhaleAddresses # {}
  /\ laterRefresh' = [LaterIdle EXCEPT !.pc = "mids"]
  /\ UNCHANGED <<now, allMids, minPositionUSD, besideLater, fullScan, dashVars>>

\* getAllMids answers the later call (lines 1043-1051); then scanPositions
\* awaits getUserState for the address of the registry (line 1009).
LaterMidsAnswer ==
  /\ laterRefresh.pc = "mids"
  /\ \E price \in {0, 100} :
       LET newMids == [c \in Coins |-> price]
           cached == \E c \in Coins : allMids[c] # 0
       IN /\ allMids' = IF price # 0 THEN newMids ELSE allMids
          /\ laterRefresh' = [laterRefresh EXCEPT
                                !.pc = IF price # 0 \/ cached THEN "state" ELSE "returned"]
  /\ UNCHANGED <<now, minPositionUSD, besideLater, fullScan, dashVars>>

\* getUserState answers the later call (lines 1009-1010): with a state the
\* scan awaits the enrichment; with null it has no positions, and
\* refreshPositions replaces trackedPositions (lines 1030-1033, 1055).
LaterStateAnswer ==
  /\ laterRefresh.pc = "state"
  /\ \E ans \in {<<>>} \cup {<<st>> : st \in UserStates} :
       IF ans = <<>>
       THEN /\ trackedPositions' = sortByDistance(<<>>)
            /\ laterRefresh' = [pc |-> "returned", state |-> <<>>, replaced |-> TRUE]
       ELSE /\ laterRefresh' = [laterRefresh EXCEPT !.pc = "enrich", !.state = ans]
            /\ UNCHANGED trackedPositions
  /\ UNCHANGED <<now, allMids, minPositionUSD, besideLater, fullScan, knownWhaleAddresses,
                 registryOrder, addressLastSeen, addressTradeVolume, knownPositionKeys,
                 sentAlerts, scansRunning, alertsRunning, refresh, lastScan, lastBatch>>

\* The enrichment answers the later call (lines 1012-1033): the positions
\* of the state it holds are processed, sorted, and replace trackedPositions
\* (line 1055).
LaterEnrichAnswer ==
  /\ laterRefresh.pc = "enrich"
  /\ \E e \in Enrichments :
       trackedPositions' =
         sortByDistance(collect(laterRefresh.state[1].assetPositions, registryOrder[1],
                                laterRefresh.state[1], e, allMids, now, minPositionUSD))
  /\ laterRefresh' = [pc |-> "returned", state |-> <<>>, replaced |-> TRUE]
  /\ UNCHANGED <<now, allMids, minPositionUSD, besideLater, fullScan, knownWhaleAddresses,
                 registryOrder, addressLastSeen, addressTradeVolume, knownPositionKeys,
                 sentAlerts, scansRunning, alertsRunning, refresh, lastScan, lastBatch>>

(***************************************************************************)
(* Specifications                                                          *)
(***************************************************************************)
\* Each specification runs one program; the others stay as constructed.
\* Every setting of both platforms is present.
CredentialsSet == credentials = AllCredentials

EvalOff ==
  /\ allMids = [c \in Coins |-> 0]
  /\ minPositionUSD = MIN_POSITION_USD
  /\ evalLog = <<>>

DashOff ==
  /\ knownWhaleAddresses = {}
  /\ registryOrder = <<>>
  /\ addressLastSeen = [a \in Addresses |-> 0]
  /\ addressTradeVolume = [a \in Addresses |-> 0]
  /\ trackedPositions = <<>>
  /\ knownPositionKeys = {}
  /\ sentAlerts = [k \in AlertKeys |-> 0]
  /\ scansRunning = [c \in ScanCalls |-> 0]
  /\ alertsRunning = [a \in AlertCalls |-> 0]
  /\ refresh = RefreshIdle
  /\ lastScan = <<>>
  /\ lastBatch = <<>>

BotOff ==
  /\ botAllMids = [c \in BotCoins |-> 0]
  /\ botSentAlerts = [k \in BotKeys |-> 0]
  /\ botTasks = [t \in BotCalls |-> 0]
  /\ botNotified = [p \in BotPlatforms |-> [k \in BotKeys |-> <<>>]]
  /\ botChecks = [k \in BotKeys |-> <<>>]
  /\ botMarkedAt = [k \in BotKeys |-> 0]

SrvOff ==
  /\ srvAllMids = [c \in SrvCoins |-> 0]
  /\ srvKnownWhaleAddresses = {}
  /\ srvConfigured = {}
  /\ srvTrackedPositions = <<>>
  /\ srvSentAlerts = [k \in SrvAlertKeys |-> 0]
  /\ srvScans = [c \in SrvScanCalls |-> 0]
  /\ srvPosts = [k \in SrvAlertKeys |-> 0]
  /\ srvRefresh = SrvRefreshIdle
  /\ srvNotified = [k \in SrvAlertKeys |-> <<>>]

StreamOff ==
  /\ ws = 0
  /\ wsSockets = [s \in Slots |-> NoSocket]
  /\ wsReconnectAttempts = 0
  /\ lastTradeReceived = 0
  /\ wsTimers = <<>>
  /\ nextHealthCheck = 0
  /\ streamHist = NoStreamHist

FullScanOff == fullScan = FullScanIdle

SecondOff == srv2 = SecondIdle

BotWsOff == botWs = BotWsIdle

BgOff == bgScan = BgIdle

LaterOff == laterRefresh = LaterIdle

HttpOff == http = NoRequest

EnrichOff == enrich = EnrichIdle

PostOff == hl = PostIdle

\* The evaluator is called with a price cache and a configured floor.
EvalInit ==
  /\ now = 1
  /\ allMids \in [Coins -> PriceSet]
  /\ minPositionUSD \in {1000000, MIN_POSITION_USD}
  /\ evalLog = <<>>
  /\ DashOff
  /\ BotOff
  /\ SrvOff
  /\ StreamOff
  /\ FullScanOff
  /\ LaterOff
  /\ BgOff
  /\ BotWsOff
  /\ HttpOff
  /\ CredentialsSet
  /\ PostOff
  /\ EnrichOff
  /\ SecondOff

EvalNext == EvaluateFirst \/ EvaluateOther \/ EvaluateAgain \/ MidsReplaced \/ EvalTick

SpecEval == EvalInit /\ [][EvalNext]_vars

\* The bot after start(): the first updatePrices has answered or failed.
BotInit ==
  /\ now = 1
  /\ EvalOff
  /\ DashOff
  /\ botAllMids \in [BotCoins -> {0, 100}]
  /\ botSentAlerts = [k \in BotKeys |-> 0]
  /\ botTasks = [t \in BotCalls |-> 0]
  /\ botNotified = [p \in BotPlatforms |-> [k \in BotKeys |-> <<>>]]
  /\ botChecks = [k \in BotKeys |-> <<>>]
  /\ botMarkedAt = [k \in BotKeys |-> 0]
  /\ SrvOff
  /\ StreamOff
  /\ FullScanOff
  /\ LaterOff
  /\ BgOff
  /\ BotWsOff
  /\ HttpOff
  /\ CredentialsSet
  /\ PostOff
  /\ EnrichOff
  /\ SecondOff

BotNext ==
  \/ BotProcessTrades
  \/ \E t \in BotCalls : BotStateAnswer(t)
  \/ \E t \in BotCalls : BotAgeAnswer(t)
  \/ \E t \in BotCalls : BotPnlAnswer(t)
  \/ \E t \in BotCalls : BotSendsDone(t)
  \/ BotUpdatePrices
  \/ BotTick

SpecBot == BotInit /\ [][BotNext]_vars

\* The dashboard server after initialize() (lines 1065-1110) found no address
\* to scan: the price cache is filled or empty, and nothing is tracked.  The
\* steps of this specification happen within one tick of the clock.
DashInit ==
  /\ now = 1
  /\ allMids \in {[c \in Coins |-> 0], [c \in Coins |-> 100]}
  /\ minPositionUSD = MIN_POSITION_USD
  /\ evalLog = <<>>
  /\ knownWhaleAddresses = {}
  /\ registryOrder = <<>>
  /\ addressLastSeen = [a \in Addresses |-> 0]
  /\ addressTradeVolume = [a \in Addresses |-> 0]
  /\ trackedPositions = <<>>
  /\ knownPositionKeys = {}
  /\ sentAlerts = [k \in AlertKeys |-> 0]
  /\ scansRunning = [c \in ScanCalls |-> 0]
  /\ alertsRunning = [a \in AlertCalls |-> 0]
  /\ refresh = RefreshIdle
  /\ lastScan = <<>>
  /\ lastBatch = <<>>
  /\ BotOff
  /\ SrvOff
  /\ StreamOff
  /\ FullScanOff
  /\ LaterOff
  /\ BgOff
  /\ BotWsOff
  /\ HttpOff
  /\ CredentialsSet
  /\ PostOff
  /\ EnrichOff
  /\ SecondOff

DashNext ==
  \/ DashProcessTrades
  \/ AddAddress
  \/ \E c \in ScanCalls : DashScanStateAnswer(c)
  \/ \E c \in ScanCalls : ScanEnrichAnswer(c)
  \/ \E a \in AlertCalls : TelegramPostEnds(a)
  \/ \E a \in AlertCalls : TwitterTimerFires(a)
  \/ \E a \in AlertCalls : TwitterPostEnds(a)
  \/ RefreshStarts
  \/ RefreshMidsAnswer
  \/ RefreshStateAnswer
  \/ RefreshEnrichAnswer

SpecDash == DashInit /\ [][DashNext]_vars

\* The registry under the stream alone: every immediate scan fails at its
\* first request.
DiscInit ==
  /\ now = 1
  /\ EvalOff
  /\ knownWhaleAddresses = {}
  /\ registryOrder = <<>>
  /\ addressLastSeen = [a \in Addresses |-> 0]
  /\ addressTradeVolume = [a \in Addresses |-> 0]
  /\ trackedPositions = <<>>
  /\ knownPositionKeys = {}
  /\ sentAlerts = [k \in AlertKeys |-> 0]
  /\ scansRunning = [c \in ScanCalls |-> 0]
  /\ alertsRunning = [a \in AlertCalls |-> 0]
  /\ refresh = RefreshIdle
  /\ lastScan = <<>>
  /\ lastBatch = <<>>
  /\ BotOff
  /\ SrvOff
  /\ StreamOff
  /\ FullScanOff
  /\ LaterOff
  /\ BgOff
  /\ BotWsOff
  /\ HttpOff
  /\ CredentialsSet
  /\ PostOff
  /\ EnrichOff
  /\ SecondOff

DiscNext ==
  \/ DiscProcessTrades
  \/ \E c \in ScanCalls : DiscScanFails(c)
  \/ Tick

SpecDisc == DiscInit /\ [][DiscNext]_vars

\* The server after initialize() has read the prices (line 604), before the
\* first trade of the stream, with the credentials of one platform.
SrvInit ==
  /\ now = 1
  /\ EvalOff
  /\ DashOff
  /\ BotOff
  /\ srvAllMids \in [SrvCoins -> {0, 100}]
  /\ srvKnownWhaleAddresses = {}
  /\ srvConfigured \in {{"telegram"}, {"twitter"}}
  /\ srvTrackedPositions = <<>>
  /\ srvSentAlerts = [k \in SrvAlertKeys |-> 0]
  /\ srvScans = [c \in SrvScanCalls |-> 0]
  /\ srvPosts = [k \in SrvAlertKeys |-> 0]
  /\ srvRefresh = SrvRefreshIdle
  /\ srvNotified = [k \in SrvAlertKeys |-> <<>>]
  /\ StreamOff
  /\ FullScanOff
  /\ LaterOff
  /\ BgOff
  /\ BotWsOff
  /\ HttpOff
  /\ CredentialsSet
  /\ PostOff
  /\ EnrichOff
  /\ SecondOff

SrvNext ==
  \/ SrvProcessTrades
  \/ SrvAddAddress
  \/ \E c \in SrvScanCalls : SrvScanStateAnswer(c)
  \/ \E c \in SrvScanCalls : SrvScanEnrichAnswer(c)
  \/ \E k \in SrvAlertKeys : SrvPostEnds(k)
  \/ SrvRefreshStarts
  \/ SrvRefreshMidsAnswer
  \/ SrvRefreshStateAnswer
  \/ SrvRefreshEnrichAnswer
  \/ SrvTick

SpecServer == SrvInit /\ [][SrvNext]_vars

\* The dashboard server when initialize() is about to call connectWebSocket
\* (line 1075), with an empty registry.
StreamInit ==
  /\ now = 1
  /\ EvalOff
  /\ DashOff
  /\ BotOff
  /\ SrvOff
  /\ StreamOff
  /\ FullScanOff
  /\ LaterOff
  /\ BgOff
  /\ BotWsOff
  /\ HttpOff
  /\ CredentialsSet
  /\ PostOff
  /\ EnrichOff
  /\ SecondOff

StreamNext ==
  \/ StreamStarts
  \/ \E s \in Slots : StreamSocketOpens(s)
  \/ \E s \in Slots : StreamSocketCloses(s)
  \/ StreamReconnectTimer
  \/ StreamHealth
  \/ StreamTrades
  \/ StreamTime

SpecStream == StreamInit /\ [][StreamNext]_vars

\* The same server on a venue that goes silent without closing a socket.
WatchInit ==
  /\ now = 1
  /\ EvalOff
  /\ DashOff
  /\ BotOff
  /\ SrvOff
  /\ StreamOff
  /\ FullScanOff
  /\ LaterOff
  /\ BgOff
  /\ BotWsOff
  /\ HttpOff
  /\ CredentialsSet
  /\ PostOff
  /\ EnrichOff
  /\ SecondOff

WatchNext ==
  \/ WatchStarts
  \/ \E s \in Slots : StreamSocketOpens(s)
  \/ \E s \in Slots : WatchSocketCloses(s)
  \/ WatchReconnectTimer
  \/ WatchHealth
  \/ WatchTrades
  \/ WatchTime

SpecWatch == WatchInit /\ [][WatchNext]_vars

\* The dashboard server when initialize() has loaded the registry from the
\* database (line 1067) and is about to call connectWebSocket.
RegInit ==
  /\ now = 1
  /\ EvalOff
  /\ \E rows \in DbRows :
       LET reg == loadWhalesFromDb(rows, [known |-> {}, order |-> <<>>,
                                          volume |-> [a \in Addresses |-> 0]])
       IN /\ knownWhaleAddresses = reg.known
          /\ registryOrder = reg.order
          /\ addressTradeVolume = reg.volume
  /\ addressLastSeen = [a \in Addresses |-> 0]
  /\ trackedPositions = <<>>
  /\ knownPositionKeys = {}
  /\ sentAlerts = [k \in AlertKeys |-> 0]
  /\ scansRunning = [c \in ScanCalls |-> 0]
  /\ alertsRunning = [a \in AlertCalls |-> 0]
  /\ refresh = RefreshIdle
  /\ lastScan = <<>>
  /\ lastBatch = <<>>
  /\ BotOff
  /\ SrvOff
  /\ StreamOff
  /\ FullScanOff
  /\ LaterOff
  /\ BgOff
  /\ BotWsOff
  /\ HttpOff
  /\ CredentialsSet
  /\ PostOff
  /\ EnrichOff
  /\ SecondOff

RegNext ==
  \/ WatchStarts
  \/ \E s \in Slots : StreamSocketOpens(s)
  \/ \E s \in Slots : StreamSocketCloses(s)
  \/ WatchReconnectTimer
  \/ RegTrades
  \/ FetchLeaderboardTraders
  \/ AddAddress
  \/ \E c \in ScanCalls : DiscScanFails(c)
  \/ RegTime

SpecRegistry == RegInit /\ [][RegNext]_vars

\* The registry under its writers when the leaderboard lists more accounts
\* than a scan takes.
CapacityNext ==
  \/ WatchStarts
  \/ \E s \in Slots : StreamSocketOpens(s)
  \/ \E s \in Slots : StreamSocketCloses(s)
  \/ WatchReconnectTimer
  \/ RegTrades
  \/ CapacityLeaderboard
  \/ AddAddress
  \/ \E c \in ScanCalls : DiscScanFails(c)
  \/ RegTime

SpecCapacity == RegInit /\ [][CapacityNext]_vars

\* The dashboard at the moment the refresh timer fires: a registry, a price
\* cache that is empty or filled, and the snapshot of an earlier scan or
\* none.
FullScanInit ==
  /\ now = 1
  /\ allMids \in {[c \in Coins |-> price] : price \in {0, 100}}
  /\ minPositionUSD = MIN_POSITION_USD
  /\ evalLog = <<>>
  /\ registryOrder \in FullScanRegistries
  /\ knownWhaleAddresses = {registryOrder[k] : k \in 1..Len(registryOrder)}
  /\ addressLastSeen = [a \in Addresses |-> 0]
  /\ addressTradeVolume = [a \in Addresses |-> 0]
  /\ trackedPositions \in {<<>>, EarlierSnapshot}
  /\ knownPositionKeys = {}
  /\ sentAlerts = [k \in AlertKeys |-> 0]
  /\ scansRunning = [c \in ScanCalls |-> 0]
  /\ alertsRunning = [a \in AlertCalls |-> 0]
  /\ refresh = RefreshIdle
  /\ lastScan = <<>>
  /\ lastBatch = <<>>
  /\ BotOff
  /\ SrvOff
  /\ StreamOff
  /\ fullScan = FullScanIdle
  /\ LaterOff
  /\ BgOff
  /\ BotWsOff
  /\ HttpOff
  /\ CredentialsSet
  /\ PostOff
  /\ EnrichOff
  /\ SecondOff

FullScanNext ==
  \/ FullScanStarts
  \/ FullScanMidsAnswer
  \/ FullScanStateAnswers
  \/ FullScanEnrichAnswers
  \/ FullScanDelayEnds

SpecFullScan == FullScanInit /\ [][FullScanNext]_vars

\* The tracked set under all its writers: the immediate scans of one account
\* started by the stream and by POST /api/add-address, and the periodic
\* scan of the registry, which here never exceeds one batch.
TrackedBatches ==
  {<<Trade("BTC", 5000, 100, <<"0xA1b2c3d4e5">>)>>}

TrackedProcessTrades ==
  ProcessTradesForDiscovery(TrackedBatches, TrackedMaxVolume, TrackedMaxTasks)

TrackedInit ==
  /\ now = 1
  /\ allMids = [c \in Coins |-> 100]
  /\ minPositionUSD = MIN_POSITION_USD
  /\ evalLog = <<>>
  /\ DashOff
  /\ BotOff
  /\ SrvOff
  /\ StreamOff
  /\ FullScanOff
  /\ LaterOff
  /\ BgOff
  /\ BotWsOff
  /\ HttpOff
  /\ CredentialsSet
  /\ PostOff
  /\ EnrichOff
  /\ SecondOff

TrackedNext ==
  \/ TrackedProcessTrades
  \/ AddAddress
  \/ \E c \in ScanCalls : DashScanStateAnswer(c)
  \/ \E c \in ScanCalls : ScanEnrichAnswer(c)
  \/ \E a \in AlertCalls : TelegramPostEnds(a)
  \/ \E a \in AlertCalls : TwitterTimerFires(a)
  \/ \E a \in AlertCalls : TwitterPostEnds(a)
  \/ FullScanStarts
  \/ FullScanMidsAnswer
  \/ FullScanStateAnswers
  \/ FullScanEnrichAnswers

SpecTracked == TrackedInit /\ [][TrackedNext]_vars

\* The second server between two periodic scans, without credentials of
\* Telegram or Twitter, with prices for both coins.
SecondInit ==
  /\ now = 1
  /\ EvalOff
  /\ DashOff
  /\ BotOff
  /\ SrvOff
  /\ StreamOff
  /\ FullScanOff
  /\ LaterOff
  /\ BgOff
  /\ BotWsOff
  /\ HttpOff
  /\ CredentialsSet
  /\ PostOff
  /\ EnrichOff
  /\ srv2 = SecondIdle

SecondNext ==
  \/ V2ProcessTrades
  \/ \E i \in 1..V2MaxTasks : V2StateAnswer(i)
  \/ \E i \in 1..V2MaxTasks : V2EnrichAnswer(i)
  \/ \E i \in 1..V2MaxTasks : V2OpenTimeAnswer(i)

SpecSecond == SecondInit /\ [][SecondNext]_vars

\* The enrichment caches under callers for one account that holds the two
\* longs, with prices for both coins.
EnrichStates == {st \in UserStates : st.assetPositions # <<>>}

EnrichInit ==
  /\ now = 1
  /\ allMids = [c \in Coins |-> 100]
  /\ minPositionUSD = MIN_POSITION_USD
  /\ evalLog = <<>>
  /\ DashOff
  /\ BotOff
  /\ SrvOff
  /\ StreamOff
  /\ FullScanOff
  /\ LaterOff
  /\ BgOff
  /\ BotWsOff
  /\ HttpOff
  /\ CredentialsSet
  /\ PostOff
  /\ SecondOff
  /\ enrich = EnrichIdle

EnrichNext ==
  \/ \E c \in EnrichCallers, st \in EnrichStates : EnrichCallStarts(c, "0xA1b2c3d4e5", st)
  \/ \E c \in EnrichCallers, answer \in PnlAnswers : EnrichPnlRequestEnds(c, answer)
  \/ \E c \in EnrichCallers, answer \in AgeAnswers : EnrichAgeRequestEnds(c, answer)
  \/ EnrichTick

SpecEnrich == EnrichInit /\ [][EnrichNext]_vars

\* One call of getUserState.  A request ends, answered or failed, within its
\* timeout; a timer that is due fires; time passes.
PostInit ==
  /\ now = 1
  /\ EvalOff
  /\ DashOff
  /\ BotOff
  /\ SrvOff
  /\ StreamOff
  /\ FullScanOff
  /\ LaterOff
  /\ BgOff
  /\ BotWsOff
  /\ HttpOff
  /\ CredentialsSet
  /\ SecondOff
  /\ EnrichOff
  /\ hl = PostIdle

PostNext ==
  \/ HlPostCalled
  \/ HlPostAnswers
  \/ HlPostFails
  \/ HlPostTimerFires
  \/ PostTick

SpecPost == PostInit /\ [][PostNext]_vars

SpecPostFair ==
  /\ SpecPost
  /\ WF_vars(HlPostCalled)
  /\ WF_vars(HlPostAnswers \/ HlPostFails)
  /\ WF_vars(HlPostTimerFires)
  /\ WF_vars(PostTick)

\* The stream of the dashboard server on messages of every shape.
RawNext ==
  \/ WatchStarts
  \/ \E s \in Slots : StreamSocketOpens(s)
  \/ \E s \in Slots : StreamSocketCloses(s)
  \/ WatchReconnectTimer
  \/ RawTrades
  \/ \E c \in ScanCalls : DiscScanFails(c)
  \/ RegTime

SpecRaw == RegInit /\ [][RawNext]_vars

\* The registry and the immediate scans under bursts of large trades; every
\* request of a scan ends after its retries without an answer.
BurstNext ==
  \/ BurstProcessTrades
  \/ \E c \in ScanCalls : DiscScanFails(c)

SpecBurst == DiscInit /\ [][BurstNext]_vars

\* The gate of sendAlerts on bounded positions, under the default floor.
GateInit ==
  /\ now = 1
  /\ allMids \in [Coins -> GatePrices]
  /\ minPositionUSD = MIN_POSITION_USD
  /\ evalLog = <<>>
  /\ DashOff
  /\ BotOff
  /\ SrvOff
  /\ StreamOff
  /\ FullScanOff
  /\ LaterOff
  /\ BgOff
  /\ BotWsOff
  /\ HttpOff
  /\ CredentialsSet
  /\ PostOff
  /\ EnrichOff
  /\ SecondOff

GateNext == GateCheck \/ GateReset

SpecGate == GateInit /\ [][GateNext]_vars

\* The dashboard server under every configuration that lacks at most one
\* setting: trades, immediate scans and alerts.
ConfigChoices == {AllCredentials} \cup {AllCredentials \ {x} : x \in AllCredentials}

ConfigInit ==
  /\ now = 1
  /\ allMids = [c \in Coins |-> 100]
  /\ minPositionUSD = MIN_POSITION_USD
  /\ evalLog = <<>>
  /\ credentials \in ConfigChoices
  /\ DashOff
  /\ BotOff
  /\ SrvOff
  /\ StreamOff
  /\ fullScan = FullScanIdle
  /\ LaterOff
  /\ BgOff
  /\ BotWsOff
  /\ HttpOff
  /\ PostOff
  /\ EnrichOff
  /\ SecondOff

ConfigNext ==
  \/ DashProcessTrades
  \/ \E c \in ScanCalls : DashScanStateAnswer(c)
  \/ \E c \in ScanCalls : ScanEnrichAnswer(c)
  \/ \E a \in AlertCalls : TelegramPostEnds(a)
  \/ \E a \in AlertCalls : TwitterTimerFires(a)
  \/ \E a \in AlertCalls : TwitterPostEnds(a)
  \/ Tick

SpecConfig == ConfigInit /\ [][ConfigNext]_vars

\* The dashboard server under requests of POST /api/add-address with every
\* kind of body: immediate scans and alerts.
AddInit ==
  /\ now = 1
  /\ allMids = [c \in Coins |-> 100]
  /\ minPositionUSD = MIN_POSITION_USD
  /\ evalLog = <<>>
  /\ DashOff
  /\ BotOff
  /\ SrvOff
  /\ StreamOff
  /\ FullScanOff
  /\ LaterOff
  /\ BgOff
  /\ BotWsOff
  /\ CredentialsSet
  /\ HttpOff
  /\ PostOff
  /\ EnrichOff
  /\ SecondOff

AddNext ==
  \/ AddRequest
  \/ \E c \in ScanCalls : DashScanStateAnswer(c)
  \/ \E c \in ScanCalls : ScanEnrichAnswer(c)
  \/ \E a \in AlertCalls : TelegramPostEnds(a)
  \/ \E a \in AlertCalls : TwitterTimerFires(a)
  \/ \E a \in AlertCalls : TwitterPostEnds(a)

SpecAdd == AddInit /\ [][AddNext]_vars

\* The stream of the live trade bot from start() to the exit of the process.
BotWsInit ==
  /\ now = 1
  /\ EvalOff
  /\ DashOff
  /\ BotOff
  /\ SrvOff
  /\ StreamOff
  /\ FullScanOff
  /\ LaterOff
  /\ BgOff
  /\ botWs = BotWsStarted
  /\ HttpOff
  /\ CredentialsSet
  /\ PostOff
  /\ EnrichOff
  /\ SecondOff

BotWsNext ==
  \/ BotWsOpens
  \/ BotWsCloses
  \/ BotWsTimerFires
  \/ BotSignal
  \/ BotServerClosed
  \/ BotWsTick

SpecBotWs == BotWsInit /\ [][BotWsNext]_vars

\* The dashboard under POST /api/add-address and the periodic scans, while
\* time passes.
CooldownMaxTime == 2

CooldownTick ==
  /\ now < CooldownMaxTime
  /\ now' = now + 1
  /\ UNCHANGED <<evalVars, dashVars, botVars, srvVars, streamVars, fullScan, srv2, enrich, hl,
                 credentials, http, botWs, bgScan, laterRefresh>>

CooldownNext ==
  \/ AddAddress
  \/ \E c \in ScanCalls : DashScanStateAnswer(c)
  \/ \E c \in ScanCalls : ScanEnrichAnswer(c)
  \/ \E a \in AlertCalls : TelegramPostEnds(a)
  \/ \E a \in AlertCalls : TwitterTimerFires(a)
  \/ \E a \in AlertCalls : TwitterPostEnds(a)
  \/ FullScanStarts
  \/ FullScanMidsAnswer
  \/ FullScanStateAnswers
  \/ FullScanEnrichAnswers
  \/ CooldownTick

SpecCooldown == TrackedInit /\ [][CooldownNext]_vars

\* The background scan from the start of the process on.
BgInit ==
  /\ now = 1
  /\ EvalOff
  /\ DashOff
  /\ BotOff
  /\ SrvOff
  /\ StreamOff
  /\ FullScanOff
  /\ LaterOff
  /\ bgScan = BgIdle
  /\ BotWsOff
  /\ HttpOff
  /\ CredentialsSet
  /\ PostOff
  /\ EnrichOff
  /\ SecondOff

BgNext ==
  \/ BgStartup
  \/ BgTimerFires
  \/ BgRefreshRequest
  \/ BgMidsAnswer
  \/ BgBatchEnds
  \/ BgDelayEnds

SpecBg == BgInit /\ [][BgNext]_vars

\* Two periodic scans over a registry of one address: the second starts
\* while the first is in flight.
OverlapInit ==
  /\ now = 1
  /\ allMids \in {[c \in Coins |-> price] : price \in {0, 100}}
  /\ minPositionUSD = MIN_POSITION_USD
  /\ evalLog = <<>>
  /\ registryOrder = <<"0xa1b2c3d4e5">>
  /\ knownWhaleAddresses = {"0xa1b2c3d4e5"}
  /\ addressLastSeen = [a \in Addresses |-> 0]
  /\ addressTradeVolume = [a \in Addresses |-> 0]
  /\ trackedPositions \in {<<>>, EarlierSnapshot}
  /\ knownPositionKeys = {}
  /\ sentAlerts = [k \in AlertKeys |-> 0]
  /\ scansRunning = [c \in ScanCalls |-> 0]
  /\ alertsRunning = [a \in AlertCalls |-> 0]
  /\ refresh = RefreshIdle
  /\ lastScan = <<>>
  /\ lastBatch = <<>>
  /\ BotOff
  /\ SrvOff
  /\ StreamOff
  /\ fullScan = FullScanIdle
  /\ laterRefresh = LaterIdle
  /\ BgOff
  /\ BotWsOff
  /\ HttpOff
  /\ CredentialsSet
  /\ PostOff
  /\ EnrichOff
  /\ SecondOff

OverlapNext ==
  \/ FullScanStarts
  \/ FullScanMidsAnswer
  \/ FullScanStateAnswers
  \/ FullScanEnrichAnswers
  \/ LaterRefreshStarts
  \/ LaterMidsAnswer
  \/ LaterStateAnswer
  \/ LaterEnrichAnswer

SpecOverlap == OverlapInit /\ [][OverlapNext]_vars

\* A periodic scan over a registry that holds the second account, while
\* POST /api/add-address adds the first account, whose two longs are at
\* risk at every request.
MergeAddAddress == fullScan.pc # "idle" /\ AddAddress

MergeScanStateAnswer(c) ==
  ScanStateAnswer(c, {<<st>> : st \in {x \in UserStates : x.assetPositions # <<>>}})

MergeInit ==
  /\ now = 1
  /\ allMids = [c \in Coins |-> 100]
  /\ minPositionUSD = MIN_POSITION_USD
  /\ evalLog = <<>>
  /\ registryOrder = <<"0xb2c3d4e5f6">>
  /\ knownWhaleAddresses = {"0xb2c3d4e5f6"}
  /\ addressLastSeen = [a \in Addresses |-> 0]
  /\ addressTradeVolume = [a \in Addresses |-> 0]
  /\ trackedPositions = <<>>
  /\ knownPositionKeys = {}
  /\ sentAlerts = [k \in AlertKeys |-> 0]
  /\ scansRunning = [c \in ScanCalls |-> 0]
  /\ alertsRunning = [a \in AlertCalls |-> 0]
  /\ refresh = RefreshIdle
  /\ lastScan = <<>>
  /\ lastBatch = <<>>
  /\ BotOff
  /\ SrvOff
  /\ StreamOff
  /\ fullScan = FullScanIdle
  /\ LaterOff
  /\ BgOff
  /\ BotWsOff
  /\ HttpOff
  /\ CredentialsSet
  /\ PostOff
  /\ EnrichOff
  /\ SecondOff

MergeNext ==
  \/ FullScanStarts
  \/ FullScanMidsAnswer
  \/ FullScanStateAnswers
  \/ FullScanEnrichAnswers
  \/ MergeAddAddress
  \/ \E c \in ScanCalls : MergeScanStateAnswer(c)
  \/ \E c \in ScanCalls : ScanEnrichAnswer(c)
  \/ \E a \in AlertCalls : TelegramPostEnds(a)
  \/ \E a \in AlertCalls : TwitterTimerFires(a)
  \/ \E a \in AlertCalls : TwitterPostEnds(a)

SpecMerge == MergeInit /\ [][MergeNext]_vars

(***************************************************************************)
(* Properties of the live trade bot (SpecBot)                              *)
(***************************************************************************)

\* C2: once a notification has been sent for an (address, coin) pair, no
\* further notification for that pair is sent on the same platform for the
\* length of ALERT_COOLDOWN (24 hours), however the checkPosition calls in
\* flight interleave.
C2_NoRepeatWithin24h ==
  \A p \in BotPlatforms : \A k \in BotKeys :
    Len(botNotified[p][k]) = 2 =>
      botNotified[p][k][2] - botNotified[p][k][1] >= BOT_ALERT_COOLDOWN

C4_OnlyNewKeysAlert ==
  [][/\ \A k \in PositionKeys :
          alertsOf(alertsRunning', k) > alertsOf(alertsRunning, k)
            => /\ k \notin trackedKeys(trackedPositions)
               /\ k \in trackedKeys(trackedPositions')
               /\ refresh' = refresh
     /\ refresh' = refresh
          => \A k \in trackedKeys(trackedPositions) :
               countOf(trackedPositions', k) = countOf(trackedPositions, k)
     /\ refresh' # refresh
          => alertsRunning' = alertsRunning /\ sentAlerts' = sentAlerts]_vars

\* The last immediate scan found a key in trackedPositions, updated it in
\* place and fired no alert, after the notification that was sent when the
\* key was new.
C4_Witness ==
  \E i \in 1..Len(lastScan) : \E a \in Addresses :
    /\ lastScan[i].existingIdx > 0
    /\ ~lastScan[i].alerted
    /\ countOf(trackedPositions, positionKey(a, lastScan[i].coin)) = 1
    /\ sentAlerts[alertKey("telegram", a, lastScan[i].coin)] # 0

\* A trade counts for discovery when it has a coin, a size and a price, and
\* its notional is at least MIN_TRADE_USD.
C10_Counts(trade) ==
  /\ trade.coin # ""
  /\ trade.sz # 0
  /\ trade.px # 0
  /\ Abs(trade.sz) * trade.px >= MIN_TRADE_USD

\* How often the address is a user of the trade, in any spelling.
C10_Occurrences(trade, a) ==
  Cardinality({j \in 1..Len(trade.users) :
                 Len(trade.users[j]) >= 10 /\ toLowerCase(trade.users[j]) = a})

RECURSIVE C10_Credit(_, _)
C10_Credit(trades, a) ==
  IF trades = <<>> THEN 0
  ELSE (IF C10_Counts(Head(trades))
        THEN Abs(Head(trades).sz) * Head(trades).px * C10_Occurrences(Head(trades), a)
        ELSE 0) + C10_Credit(Tail(trades), a)

C10_Mentioned(trades, a) ==
  \E i \in 1..Len(trades) : C10_Counts(trades[i]) /\ C10_Occurrences(trades[i], a) > 0

\* The step processes a batch of trades.
C10_BatchStep ==
  \/ lastBatch' # lastBatch
  \/ knownWhaleAddresses' # knownWhaleAddresses
  \/ addressLastSeen' # addressLastSeen
  \/ addressTradeVolume' # addressTradeVolume

\* C10, as stated: after a batch, every user of every trade whose notional
\* is at least MIN_TRADE_USD is in the registry (in lower case), seen now,
\* with its volume increased by the notional of each such trade; a batch of
\* trades under the threshold changes nothing in the registry.
C10_EveryCounterparty ==
  [][C10_BatchStep =>
       LET b == lastBatch'[1]
           big(i) == Abs(b[i].sz) * b[i].px >= MIN_TRADE_USD
           party(i, a) == \E j \in 1..Len(b[i].users) : toLowerCase(b[i].users[j]) = a
           RECURSIVE due(_, _)
           due(i, a) == IF i = 0 THEN 0
                        ELSE (IF big(i) /\ party(i, a) THEN Abs(b[i].sz) * b[i].px ELSE 0)
                             + due(i - 1, a)
       IN /\ \A i \in 1..Len(b) :
               big(i) => \A j \in 1..Len(b[i].users) :
                           LET a == toLowerCase(b[i].users[j])
                           IN /\ a \in knownWhaleAddresses'
                              /\ addressLastSeen'[a] = now
                              /\ addressTradeVolume'[a] = addressTradeVolume[a] + due(Len(b), a)
          /\ (\A i \in 1..Len(b) : ~big(i))
               => /\ knownWhaleAddresses' = knownWhaleAddresses
                  /\ addressLastSeen' = addressLastSeen
                  /\ addressTradeVolume' = addressTradeVolume]_vars

\* C10, amended: after a batch, every user that is a string of at least 10
\* characters of every trade that has a coin, a size and a price and whose
\* notional is at least MIN_TRADE_USD is in the registry in lower case, seen
\* now, and the volume of an address has grown by the notional of each such
\* trade once for every time the address is among its users; every other
\* address is as before, and a batch without such a trade changes nothing.
C10_RegistersCountingTrades ==
  [][C10_BatchStep =>
       \A a \in Addresses :
         /\ addressTradeVolume'[a] = addressTradeVolume[a] + C10_Credit(lastBatch'[1], a)
         /\ C10_Mentioned(lastBatch'[1], a)
              => a \in knownWhaleAddresses' /\ addressLastSeen'[a] = now
         /\ ~C10_Mentioned(lastBatch'[1], a)
              => /\ (a \in knownWhaleAddresses') = (a \in knownWhaleAddresses)
                 /\ addressLastSeen'[a] = addressLastSeen[a]]_vars

\* The last batch held a trade between two accounts at the threshold; both
\* are registered and seen now, later than the start, and the volume of the
\* first has grown beyond that trade.
C10_Witness ==
  /\ lastBatch # <<>>
  /\ now > 1
  /\ \E i \in 1..Len(lastBatch[1]) :
       /\ C10_Counts(lastBatch[1][i])
       /\ Len(lastBatch[1][i].users) = 2
       /\ \A a \in Addresses :
            /\ C10_Occurrences(lastBatch[1][i], a) = 1
            /\ a \in knownWhaleAddresses
            /\ addressLastSeen[a] = now
       /\ \E a \in Addresses :
            addressTradeVolume[a] > Abs(lastBatch[1][i].sz) * lastBatch[1][i].px

\* How many immediate scans of the address for the coin the batch asks for:
\* one for every time the address is among the users of a trade that counts
\* and whose notional is at least IMMEDIATE_TRADE_USD.
RECURSIVE C11_Requested(_, _, _)
C11_Requested(trades, a, coin) ==
  IF trades = <<>> THEN 0
  ELSE (IF C10_Counts(Head(trades)) /\ Head(trades).coin = coin
           /\ Abs(Head(trades).sz) * Head(trades).px >= IMMEDIATE_TRADE_USD
        THEN C10_Occurrences(Head(trades), a) ELSE 0)
       + C11_Requested(Tail(trades), a, coin)

C12_RegistryOnlyGrows ==
  [][/\ knownWhaleAddresses \subseteq knownWhaleAddresses'
     /\ \A a \in Addresses :
          /\ addressTradeVolume'[a] >= addressTradeVolume[a]
          /\ addressLastSeen'[a] >= addressLastSeen[a]
          /\ (RegTrades /\ C10_Mentioned(lastBatch'[1], a))
               => addressTradeVolume'[a] > addressTradeVolume[a]
     /\ FetchLeaderboardTraders
          => /\ addressTradeVolume' = addressTradeVolume
             /\ addressLastSeen' = addressLastSeen]_vars

\* An address had a volume when the stream reconnected after a close, and
\* was sighted again later on the new connection: its volume has grown, and
\* the other address, which the leaderboard added, has none.
C12_Witness ==
  /\ streamHist.attempt # <<>>
  /\ streamHist.attempt[1].cause = "timer"
  /\ \E a \in Addresses :
       /\ streamHist.attempt[1].volumes[a] > 0
       /\ addressLastSeen[a] > streamHist.attempt[1].at
       /\ addressTradeVolume[a] > streamHist.attempt[1].volumes[a]
  /\ \E b \in knownWhaleAddresses : addressTradeVolume[b] = 0 /\ addressLastSeen[b] = 0

(***************************************************************************)
(* Properties of the size of the registry (SpecCapacity)                   *)
(***************************************************************************)
\* C27: the registry stays under a ceiling: the addresses registered by the
\* stream, the leaderboard, the database and by hand never number more than
\* the capacity, here the only capacity of the source, the number of
\* addresses that a scan takes.
C27_RegistryBounded == Cardinality(knownWhaleAddresses) <= MAX_ADDRESSES_TO_SCAN

\* C28: no step removes from the registry an address that the stream has
\* named; every run of the model is shorter than the 24 hours of the
\* retention window, so that every such address is inside it.
C28_SeenAddressStays ==
  [][\A a \in Addresses :
       (a \in knownWhaleAddresses /\ addressLastSeen[a] > 0)
         => a \in knownWhaleAddresses']_vars

\* The registry holds more addresses than a scan takes, among them one that
\* the stream named before the last tick of the clock, with less volume than
\* another; it has stayed through an import of the leaderboard.
C28_Witness ==
  /\ Cardinality(knownWhaleAddresses) > MAX_ADDRESSES_TO_SCAN
  /\ \E a, b \in Addresses \cap knownWhaleAddresses :
       /\ addressLastSeen[a] > 0
       /\ addressLastSeen[a] < now
       /\ addressTradeVolume[a] < addressTradeVolume[b]
       /\ \E i, j \in 1..Len(registryOrder) :
            i < j /\ registryOrder[i] = a /\ registryOrder[j] = "0xd4e5f6a7b8"

(***************************************************************************)
(* Properties of the trade stream (SpecStream, SpecWatch)                  *)
(***************************************************************************)

\* C13: at every moment at most one stream connection is connecting or
\* open; connectWebSocket is not called by the health check while a timer of
\* an earlier loss is still pending; and a trade message of the venue runs
\* through the pipeline once.
C13_SingleConnection ==
  /\ Cardinality(LiveSockets) <= 1
  /\ streamHist.attempt # <<>>
       => ~(streamHist.attempt[1].cause \in {"health", "stale"} /\ streamHist.attempt[1].due # 0)
  /\ streamHist.delivered <= 1

\* C14: the delays scheduled after consecutive losses never decrease, never
\* exceed the cap of 30 s, start at the base of 5 s after an open, and no
\* call of connectWebSocket after a loss is made before the delay scheduled
\* for that loss has passed.
C14_BackoffRespected ==
  /\ streamHist.delays.last <= RECONNECT_CAP
  /\ streamHist.delays.prev # 0 => streamHist.delays.prev <= streamHist.delays.last
  /\ (streamHist.delays.prev = 0 /\ streamHist.delays.last # 0)
       => streamHist.delays.last = RECONNECT_STEP
  /\ streamHist.attempt # <<>> => streamHist.attempt[1].at >= streamHist.attempt[1].due

\* C15: at every health check that finds the socket open while no trade
\* message has arrived for more than the idle window of two minutes, since
\* the last message or, without any message, since the start, the check
\* closes the socket and reconnects.
C15_WatchdogForcesReconnect ==
  streamHist.health # <<>> =>
    LET h == streamHist.health[1]
        quietSince == IF h.lastTrade = 0 THEN 1 ELSE h.lastTrade
    IN (h.open /\ h.at - quietSince > IDLE_WINDOW) => h.reconnects

\* C16: every socket that has opened holds a trades subscription, so that
\* its trade messages reach the discovery.
C16_OpenIsSubscribed ==
  \A s \in Slots : wsSockets[s].readyState = "open" => wsSockets[s].subscribed

(***************************************************************************)
(* Properties of the periodic scan of the registry (SpecFullScan)          *)
(***************************************************************************)
\* C17: when a periodic scan has run to its end, the position state of
\* every address that was in the registry when the scan was started has
\* been requested.
C17_EveryAddressFetched ==
  fullScan.complete =>
    \A k \in 1..Len(fullScan.atStart) : fullScan.atStart[k] \in fullScan.fetched

\* The step in which scanPositions returns and refreshPositions assigns its
\* result.
C18_ScanReturns == fullScan.pc = "batch" /\ fullScan'.pc = "idle"

\* C18: a scan cycle that found no price at all, or in which getUserState
\* failed for every address, leaves trackedPositions as it was.
C18_FailedCycleKeepsSnapshot ==
  [][/\ (fullScan.pc = "mids" /\ fullScan'.pc = "idle") => trackedPositions' = trackedPositions
     /\ (C18_ScanReturns /\ \A k \in 1..Len(fullScan'.log) : fullScan'.log[k].kind = "null")
          => trackedPositions' = trackedPositions]_vars

\* The positions that the addresses of a scan account for: those evaluated
\* from the answer of each address whose fetch succeeded, none for the
\* others.
RECURSIVE C19_Expected(_, _, _, _)
C19_Expected(log, mids, t, cfgMin) ==
  IF log = <<>> THEN <<>>
  ELSE LET entry == Head(log)
           own == IF entry.kind = "ok"
                  THEN collect(entry.state[1].assetPositions, entry.address, entry.state[1],
                               entry.e[1], mids, t, cfgMin)
                  ELSE <<>>
       IN own \o C19_Expected(Tail(log), mids, t, cfgMin)

\* C19: a scan whose fetches failed for some addresses still runs over all
\* the addresses it was given, and its result is the sorted list of the
\* evaluated positions of the addresses that answered; a failed address
\* contributes none.
C19_FailureSwallowed ==
  [][C18_ScanReturns =>
       /\ Len(fullScan'.log) = Len(fullScan'.addresses)
       /\ \A k \in 1..Len(fullScan'.log) : fullScan'.log[k].address = fullScan'.addresses[k]
       /\ trackedPositions' =
            sortByDistance(C19_Expected(fullScan'.log, allMids', now', minPositionUSD'))
       /\ \A k \in 1..Len(fullScan'.log) :
            fullScan'.log[k].kind # "ok" =>
              \A n \in 1..Len(trackedPositions') :
                trackedPositions'[n].user # fullScan'.log[k].address]_vars

\* A finished scan of three addresses in which one fetch returned null, one
\* callback threw, and the third address has its positions in the result.
C19_Witness ==
  /\ fullScan.complete
  /\ \E k1, k2, k3 \in 1..Len(fullScan.log) :
       /\ fullScan.log[k1].kind = "null"
       /\ fullScan.log[k2].kind = "throws"
       /\ fullScan.log[k3].kind = "ok"
       /\ k3 < 3
       /\ \E n \in 1..Len(trackedPositions) : trackedPositions[n].user = fullScan.log[k3].address

\* C20: trackedPositions never holds two entries of the same address and
\* coin, whatever the order in which the periodic scan, the immediate scans
\* in flight and the manual additions take their steps.
C20_OneEntryPerKey ==
  \A i, j \in 1..Len(trackedPositions) :
    (/\ trackedPositions[i].user = trackedPositions[j].user
     /\ trackedPositions[i].coin = trackedPositions[j].coin) => i = j

\* After a periodic scan has run, an immediate scan has found its key in the
\* tracked set and replaced the entry, while the scan of a manual addition
\* of the same address holds its answer and waits for the enrichment.
C20_Witness ==
  /\ fullScan.complete
  /\ \E i \in 1..Len(lastScan) : \E c \in ScanCalls :
       /\ lastScan[i].existingIdx > 0
       /\ c.pc = "enrich"
       /\ c.tradeCoin = <<>>
       /\ scansRunning[c] > 0
       /\ lastBatch # <<>>
       /\ countOf(trackedPositions, positionKey(c.address, lastScan[i].coin)) = 1

(***************************************************************************)
(* Properties of the requests in flight (SpecBurst)                        *)
(***************************************************************************)
\* C26: the requests to the exchange that are in flight never exceed the
\* larger of the two batch sizes; here both scans of the registry are idle
\* and the requests are those of the immediate scans.
C26_RequestsBounded == ScansInFlight <= BACKGROUND_BATCH_SIZE

(***************************************************************************)
(* Properties of the alerts of the dashboard server (SpecTracked)          *)
(***************************************************************************)
\* The sentAlerts entry of one platform for a position, read by the string
\* the source builds (lines 185, 280); 0 when the Map has none.
C25_Entry(alerts, platform, u, c) ==
  LET k == <<IF platform = "twitter" THEN "twitter-" ELSE "", u, c>>
  IN IF k \in DOMAIN alerts THEN alerts[k] ELSE 0

C25_InCooldown(alerts, platform, u, c) ==
  C25_Entry(alerts, platform, u, c) # 0
    /\ (now - C25_Entry(alerts, platform, u, c)) < ALERT_COOLDOWN

C21_SortedByDistance ==
  \A n \in 1..(Len(srv2.tracked) - 1) :
    srvCloserOrEqual(srv2.tracked[n], srv2.tracked[n + 1])

(***************************************************************************)
(* Properties of the first dashboard server (SpecServer)                   *)
(***************************************************************************)

\* C1: for every (address, instrument) and platform, no two notifications
\* are sent less than ALERT_COOLDOWN apart, under every interleaving of
\* immediate scans, refreshes that replace trackedPositions, and completions
\* of posts in flight.
C1_NoRepeatWithinCooldown ==
  \A k \in SrvAlertKeys :
    Len(srvNotified[k]) = 2 => srvNotified[k][2] - srvNotified[k][1] >= SRV_ALERT_COOLDOWN

(***************************************************************************)
(* Properties of the enrichment caches (SpecEnrich)                        *)
(***************************************************************************)
\* C22: a call of getCachedAllTimePnl or getWalletAge that finds an entry
\* younger than its TTL (five minutes for the all-time PnL, one hour for the
\* wallet age), and a call of getWalletAge that finds the permanent entry,
\* returns the cached value and sends no request.
C22_FreshReadFromCache ==
  \A n \in 1..Len(lastReads) :
    LET r == lastReads[n]
        pnl == r.before.allTimePnlCache
        age == r.before.walletAgeCache
    IN /\ (pnl # <<>> /\ r.at - pnl[1].timestamp < ALLTIME_PNL_TTL)
            => r.allTimePnl = Resolved(<<pnl[1].pnl>>)
       /\ (age # <<>> /\ r.at - age[1].timestamp < WALLET_AGE_TTL)
            => r.walletAgeDays = Resolved(<<age[1].ageDays>>)
       /\ r.before.walletAgeDays # <<>>
            => r.walletAgeDays = Resolved(r.before.walletAgeDays)

\* Both calls return from entries written before the read: the all-time PnL
\* from one still young, the wallet age from the permanent entry after its
\* hour has passed; the callback returns its positions at once.
C22_Witness ==
  \E n \in 1..Len(lastReads) :
    LET r == lastReads[n]
        pnl == r.before.allTimePnlCache
        age == r.before.walletAgeCache
    IN /\ pnl # <<>> /\ pnl[1].timestamp < r.at
       /\ r.at - pnl[1].timestamp < ALLTIME_PNL_TTL
       /\ age # <<>> /\ r.at - age[1].timestamp >= WALLET_AGE_TTL
       /\ r.allTimePnl = Resolved(<<5>>)
       /\ r.walletAgeDays = Resolved(<<3>>)
       /\ r.returned # <<>> /\ r.returned[1] # <<>>
       /\ \A c \in EnrichCallers : enrich.calls[c] = <<>>

\* The callers that await the request of one kind for one address.
C23_Requests(kind, a) ==
  {c \in EnrichCallers :
     /\ enrich.calls[c] # <<>>
     /\ toLowerCase(enrich.calls[c][1].address) = a
     /\ enrich.calls[c][1][kind] = Fetching}

\* C23: for one address and one kind of fact at most one request is in
\* flight; a second read while it is pending sends none.
C23_OneRequestPerKey ==
  \A a \in Addresses, kind \in {"allTimePnl", "walletAgeDays"} :
    Cardinality(C23_Requests(kind, a)) <= 1

\* The positions of a state that processPosition accepts.
C24_Accepted(call, t) ==
  {k \in 1..Len(call.state.assetPositions) :
     LET pos == call.state.assetPositions[k]
     IN processPosition(call.address, pos, allMids[pos.coin], <<call.state>>, allMids, t,
                        minPositionUSD) # Null}

\* C24: a request of getCachedAllTimePnl or getWalletAge that throws makes
\* the call return null and leaves the caches as they were; the callback
\* that then returns has every accepted position of the state, with the
\* failed field null.
C24_FailureIsNull ==
  \A n \in 1..Len(lastEnded) :
    LET d == lastEnded[n]
    IN d.answer.kind = "throws" =>
         /\ d.value = <<>>
         /\ d.after = d.before
         /\ \A m \in 1..Len(d.returned) :
              /\ Len(d.returned[m]) = Cardinality(C24_Accepted(d.call, d.at))
              /\ \A k \in 1..Len(d.returned[m]) :
                   /\ d.returned[m][k].user = d.call.address
                   /\ d.returned[m][k][d.kind] = <<>>
                   /\ d.kind = "allTimePnl" => ~d.returned[m][k].isProfitableWhale

\* A request has thrown for an address without entries, and the callback
\* has returned both positions of the state without the fact.
C24_Witness ==
  \E n \in 1..Len(lastEnded) :
    LET d == lastEnded[n]
    IN /\ d.answer.kind = "throws"
       /\ d.before[IF d.kind = "allTimePnl" THEN "allTimePnlCache" ELSE "walletAgeCache"] = <<>>
       /\ d.returned # <<>>
       /\ Len(d.returned[1]) = 2
       /\ d.returned[1][1][d.kind] = <<>>

(***************************************************************************)
(* Properties of hlPost (SpecPostFair)                                     *)
(***************************************************************************)
\* What a call of hlPost has done so far: at most three requests, a timer of
\* one second after the first failure and of two after the second, the next
\* request not before its timer; null only after three failed requests, and
\* then the caller skips; data after a request that did not fail, and then
\* the caller evaluates.
C29_Bounded ==
  /\ Len(hl.sent) <= 3
  /\ Len(hl.delays) <= 2
  /\ \A k \in 1..Len(hl.delays) : hl.delays[k] = k
  /\ \A k \in 1..(Len(hl.sent) - 1) : hl.sent[k + 1] >= hl.failed[k] + k
  /\ \A k \in 1..Len(hl.failed) : hl.failed[k] - hl.sent[k] <= HL_TIMEOUT
  /\ hl.returned = "null"
       => /\ hl.pc = "done"
          /\ Len(hl.sent) = 3 /\ Len(hl.failed) = 3 /\ hl.delays = <<1, 2>>
          /\ hl.caller = "skips"
  /\ hl.returned = "data"
       => /\ hl.pc = "done"
          /\ Len(hl.failed) = Len(hl.sent) - 1
          /\ hl.caller = "evaluates"

\* C29: a call of hlPost ends: it returns after at most three requests, with
\* a second and then two seconds between them, null when all have failed,
\* and once it has returned, with data or null, it sends nothing more.
C29_HlPostTerminates ==
  /\ []C29_Bounded
  /\ [][hl.pc = "done" => hl' = hl]_vars
  /\ (hl.pc \in {"post", "wait"}) ~> (hl.pc = "done")

\* hlPost has returned null after three requests, one of which ran into its
\* timeout of ten seconds, and the third was sent two seconds after the
\* second failed.
C29_Witness ==
  /\ hl.returned = "null"
  /\ Len(hl.sent) = 3
  /\ hl.sent[3] = hl.failed[2] + 2
  /\ \E k \in 1..3 : hl.failed[k] - hl.sent[k] = HL_TIMEOUT

(***************************************************************************)
(* Properties of the stream on malformed messages (SpecRaw)                *)
(***************************************************************************)
\* The trade has a coin and an array of users, and its size and its price
\* are of one of the given kinds.
C30_WellFormed(tr, kinds) ==
  /\ tr.coin # ""
  /\ tr.sz.kind \in kinds
  /\ tr.px.kind \in kinds
  /\ tr.users.kind = "array"

\* The number of times that a trade names the address.
RECURSIVE C30_Names(_, _)
C30_Names(users, a) ==
  IF users = <<>> THEN 0
  ELSE (IF Len(Head(users)) >= 10 /\ toLowerCase(Head(users)) = a THEN 1 ELSE 0)
       + C30_Names(Tail(users), a)

\* The volume that the well-formed trades of a batch bring to an address.
RECURSIVE C30_Credit(_, _, _)
C30_Credit(trades, a, kinds) ==
  IF trades = <<>> THEN 0
  ELSE LET tr == Head(trades)
           value == Abs(tr.sz.n) * tr.px.n
       IN (IF C30_WellFormed(tr, kinds) /\ value >= MIN_TRADE_USD
           THEN value * C30_Names(tr.users.list, a) ELSE 0)
          + C30_Credit(Tail(trades), a, kinds)

\* The number of immediate scans of an address that the well-formed trades
\* of a batch request.
RECURSIVE C30_Requests(_, _, _)
C30_Requests(trades, a, kinds) ==
  IF trades = <<>> THEN 0
  ELSE LET tr == Head(trades)
       IN (IF C30_WellFormed(tr, kinds) /\ Abs(tr.sz.n) * tr.px.n >= IMMEDIATE_TRADE_USD
           THEN C30_Names(tr.users.list, a) ELSE 0)
          + C30_Requests(Tail(trades), a, kinds)

\* One message of the stream leaves the connections and the tracked set as
\* they are; without an array of trades it changes nothing and requests no
\* scan; with one, every address receives what the well-formed trades of the
\* batch bring, on each receiving connection, and nothing else.
C30_Handled(kinds) ==
  RawTrades =>
    LET m == lastBatch'[1]
        n == Cardinality(Receivers)
    IN /\ UNCHANGED <<ws, wsSockets, wsTimers, wsReconnectAttempts>>
       /\ UNCHANGED <<trackedPositions, knownPositionKeys>>
       /\ ~hasTrades(m)
            => UNCHANGED <<knownWhaleAddresses, registryOrder, addressLastSeen,
                           addressTradeVolume, scansRunning>>
       /\ hasTrades(m)
            => /\ \A a \in Addresses :
                    LET credit == C30_Credit(m.trades, a, kinds)
                    IN /\ addressTradeVolume'[a] = addressTradeVolume[a] + n * credit
                       /\ a \in knownWhaleAddresses' <=> (a \in knownWhaleAddresses \/ credit > 0)
                       /\ addressLastSeen'[a] = IF credit > 0 THEN now ELSE addressLastSeen[a]
               /\ \A c \in ScanCalls :
                    scansRunning'[c] =
                      scansRunning[c]
                      + (IF c = ScanCall("state", c.address, <<"BTC">>, <<>>)
                         THEN n * C30_Requests(m.trades, c.address, kinds) ELSE 0)

C31_NoAlertOutsideGate ==
  \A i \in Evaluated :
    LET e == evalLog[i]
    IN (Priced(e) /\ e.alerted)
         => /\ EntryNotional(e) >= MIN_POSITION_USD
            /\ EntryDistNum(e) * 100 <= 10 * EntryMark(e)

(***************************************************************************)
(* Properties of the configuration of the platforms (SpecConfig)           *)
(***************************************************************************)
\* C32: when a credential of a platform is missing, no send to that
\* platform is attempted and no cooldown entry of that platform is written.
C32_MissingDisables ==
  \A p \in Platforms :
    ~(Credentials[p] \subseteq credentials)
      => /\ \A a \in AlertCalls : a.pc = p => alertsRunning[a] = 0
         /\ \A u \in Addresses, c \in Coins :
              sentAlerts[IF p = "twitter" THEN <<"twitter-", u, c>> ELSE <<"", u, c>>] = 0

(***************************************************************************)
(* Properties of POST /api/add-address (SpecAdd)                           *)
(***************************************************************************)
\* The calls of checkAddressImmediately in flight that the route made for
\* an address.
C33_Scans(calls, a) ==
  SumOver(calls, {c \in ScanCalls : c.address = a /\ c.tradeCoin = <<>>})

\* C33: a request with an address that starts with 0x adds the lower-cased
\* address to the registry and starts the immediate scan of it, and success
\* is answered by the step in which that scan ends; a request without
\* address, or with one that does not start with 0x, is answered with an
\* error and leaves the registry and the tracked set as they are.
C33_AddAddressAnswers ==
  [][/\ (AddRequest /\ http' # http)
          => LET b == http'.request[1]
                 lower == IF b.value = "0xA1b2c3d4e5" THEN "0xa1b2c3d4e5" ELSE b.value
             IN IF b.kind = "string" /\ b.value \in {"0xA1b2c3d4e5", "0xb2c3d4e5f6"}
                THEN /\ lower \in knownWhaleAddresses'
                     /\ C33_Scans(scansRunning', lower) = C33_Scans(scansRunning, lower) + 1
                     /\ http'.response = <<>>
                ELSE /\ http'.response = <<400>>
                     /\ UNCHANGED <<knownWhaleAddresses, trackedPositions>>
     /\ (http.response = <<>> /\ http'.response = <<200>>)
          => LET a == toLowerCase(http.request[1].value)
             IN /\ http'.request = http.request
                /\ C33_Scans(scansRunning, a) = 1
                /\ C33_Scans(scansRunning', a) = 0]_vars

(***************************************************************************)
(* Properties of the shutdown of the live trade bot (SpecBotWs)            *)
(***************************************************************************)
\* C34: from the shutdown signal on, the stream connection is closing or
\* closed and connectWebSocket is not called any more: no connection is
\* opened between the signal and the exit of the process.
C34_NoReconnectAfterShutdown ==
  botWs.phase \in {"closing", "exited"}
    => /\ botWs.readyState \notin {"connecting", "open"}
       /\ botWs.reconnects = 0

(***************************************************************************)
(* Properties of the alerts of checkAddressImmediately (SpecTracked)       *)
(***************************************************************************)
\* A checkAddressImmediately call ends its loop in this step.
ScanLoopEnds == \E c \in ScanCalls : c.pc = "enrich" /\ scansRunning'[c] < scansRunning[c]

\* The entries of the tracked set for a coin, after the step.
C35_Added(coin) ==
  {i \in 1..Len(trackedPositions') : trackedPositions'[i].coin = coin}

\* C35: when the loop of an immediate targeted scan adds a position of a
\* coin outside the major coins, of $2M or more, to the tracked set as a new
\* entry, it reaches the posts of sendAlerts for it.
C35_NewShitcoinAlerted ==
  [][ScanLoopEnds =>
        \A k \in 1..Len(lastScan') :
          (/\ lastScan'[k].existingIdx = 0
           /\ isShitcoin(lastScan'[k].coin)
           /\ \A i \in C35_Added(lastScan'[k].coin) :
                trackedPositions'[i].positionUSD >= VAULT_POSITION_USD)
            => lastScan'[k].alerted]_vars

(***************************************************************************)
(* Properties of the suppression of alerts (SpecCooldown)                  *)
(***************************************************************************)
\* The entry of the tracked set for a key, after the step.
C36_Entry(user, coin) ==
  LET i == CHOOSE i \in 1..Len(trackedPositions') :
             trackedPositions'[i].user = user /\ trackedPositions'[i].coin = coin
  IN trackedPositions'[i]

\* Telegram was notified of the key, and ALERT_COOLDOWN has elapsed since.
C36_CooldownElapsed(user, coin) ==
  LET lastAlert == sentAlerts[alertKey("telegram", user, coin)]
  IN lastAlert # 0 /\ now - lastAlert >= ALERT_COOLDOWN

\* C36: once ALERT_COOLDOWN has elapsed since the last notification of a key,
\* an immediate targeted scan that adds the position as a new entry, of a
\* coin outside the major coins, of $2M or more and at most 10 % from its
\* liquidation, reaches the posts of sendAlerts for it again.
C36_SuppressedOnlyInWindow ==
  [][\A c \in ScanCalls :
       (c.pc = "enrich" /\ scansRunning'[c] < scansRunning[c]) =>
         \A k \in 1..Len(lastScan') :
           (/\ lastScan'[k].existingIdx = 0
            /\ isShitcoin(lastScan'[k].coin)
            /\ C36_CooldownElapsed(c.address, lastScan'[k].coin)
            /\ C36_Entry(c.address, lastScan'[k].coin).positionUSD >= minPositionUSD
            /\ C36_Entry(c.address, lastScan'[k].coin).distancePercent <= ALERT_MAX_DISTANCE)
             => lastScan'[k].alerted]_vars

C38_OneScanAndFlagReleased ==
  /\ Len(bgScan.running) <= 1
  /\ bgScan.isScanning <=> Len(bgScan.running) = 1

\* A scan has ended with an exception, a later call has started a scan, and
\* a call made during that scan has returned at the guard.
C38_Witness ==
  /\ bgScan.ended = "error"
  /\ bgScan.isScanning
  /\ bgScan.skipped

(***************************************************************************)
(* Properties of overlapping periodic scans (SpecOverlap)                  *)
(***************************************************************************)
\* C39: when a periodic scan is still in flight as the next one starts, the
\* scan that started first does not replace the tracked set once the set
\* holds the result of the scan that started later.
C39_OlderNeverReplacesNewer ==
  [][(fullScan.pc # "idle" /\ fullScan'.pc = "idle" /\ fullScan'.complete)
       => ~laterRefresh.replaced]_vars

(***************************************************************************)
(* Properties of a merge during a periodic scan (SpecMerge)                *)
(***************************************************************************)
\* The periodic scan got a state of the account from the venue.
C40_ScanSawAccount(log, user) ==
  \E j \in 1..Len(log) : log[j].address = user /\ log[j].state # <<>>

\* C40: a position that an immediate targeted scan merged into the tracked
\* set while a periodic scan was in flight, and that is at risk at every
\* request, is still in the tracked set after the periodic scan has replaced
\* the set, unless that scan got a state of the account.
C40_MergedPositionKept ==
  [][(fullScan.pc # "idle" /\ fullScan'.pc = "idle" /\ fullScan'.complete) =>
       \A i \in 1..Len(trackedPositions) :
         ~C40_ScanSawAccount(fullScan'.log, trackedPositions[i].user) =>
           \E k \in 1..Len(trackedPositions') :
             /\ trackedPositions'[k].user = trackedPositions[i].user
             /\ trackedPositions'[k].coin = trackedPositions[i].coin]_vars

====
